---- MODULE Spec2Model ----
(***************************************************************************)
(* Girdbot_v3: the grid engine (gridbot/strategy.py) driven by the bot's  *)
(* tasks (gridbot/bot.py) against a venue.                                 *)
(*                                                                         *)
(* Every coroutine is cut at its awaits: a program counter names the call  *)
(* a task is suspended at, and one action resumes it (the call returning   *)
(* or raising) and runs the synchronous code up to the next await.         *)
(* Python objects are kept in a heap (heap[uid]) so that a rung held in    *)
(* two lists, or by a suspended coroutine, is one object.                  *)
(***************************************************************************)
EXTENDS Integers, Sequences, FiniteSets, TLC

VARIABLES
    config,            \* BotConfig: grids, gridsize, investment; GridBot.fresh_start
    order_pairs,       \* GridStrategy.order_pairs: sequence of uids
    completed_trades,  \* GridStrategy.completed_trades: sequence of uids
    heap,              \* the OrderPair objects, heap[uid]
    grid_size,         \* GridStrategy.grid_size
    snapshot,          \* order_pairs_<coin>.json: whether it exists, and its dicts
    venue,             \* the exchange's orders, venue[id]
    feed,              \* order updates the order stream has still to deliver
    missed,            \* ids of filled orders whose update the stream dropped
    main_pc,           \* GridBot.run / initialize
    wo_pc,             \* GridBot._watch_orders (and handle_filled_order in it)
    mh_pc,             \* GridBot._monitor_health (and check_order_health in it)
    ini,               \* locals of initialize_grid
    hf,                \* locals of handle_filled_order and _trail_up
    hc,                \* locals of check_order_health
    used,              \* the outside events taken so far
    serial,            \* TRUE: an operation is started only when no other runs
    calc,              \* a calculation applied on its own: its inputs and results
    ws_manager         \* the WebSocketManager: its queue, flag and send loop

vars == <<config, order_pairs, completed_trades, heap, grid_size, snapshot, venue,
          feed, missed, main_pc, wo_pc, mh_pc, ini, hf, hc, used, serial, calc,
          ws_manager>>

---------------------------------------------------------------------------
(* Bounds of the model *)

\* the grid counts tried, the orders placed by hand before the first start,
\* and the events a run takes from outside the engine: fills, cancellations,
\* gateway calls that raise, restarts; the per-rung gateway calls of a
\* health-check pass that raise are counted apart, pass by pass
MaxGrids == 2
MaxPreexisting == 1
MaxEvents == 2
MaxRaised == 1

\* the messages send_update is given in a run of the notifier
MaxMessages == 3

(* Inputs *)

\* prices the ticker reports
TickerPrices == {900, 1000}

\* prices the ticker reports to a health-check pass: also one below every
\* buy price of the grids
HealthTickerPrices == TickerPrices \cup {800}

\* BotConfig.gridsize (percent) and BotConfig.investment
GridsizeValues == {10}
InvestmentValues == {1200}

\* the configurations and reference prices a calculation is applied to: the
\* documented scenario (10 grids, investment 1000, 1 percent, price 45000)
\* among them, and a grid whose rungs are 60 percent of the price apart
CalcConfigs ==
    {[grids |-> 10, gridsize |-> 1, investment |-> 1000, fresh_start |-> TRUE],
     [grids |-> 3, gridsize |-> 60, investment |-> 1200, fresh_start |-> TRUE],
     [grids |-> 5, gridsize |-> 1, investment |-> 1000, fresh_start |-> TRUE],
     [grids |-> 3, gridsize |-> 10, investment |-> 1200, fresh_start |-> TRUE],
     [grids |-> 2, gridsize |-> 10, investment |-> 1200, fresh_start |-> TRUE]}

CalcReferences == {900, 1000, 45000}

---------------------------------------------------------------------------
(* Values *)

\* Python's None, for ids and prices (ids are >= 1, prices >= 0)
None == 0 - 1

\* the snapshot file when it does not exist (open raises FileNotFoundError);
\* writable: whether open(..., 'w') and json.dump succeed
NoFile == [exists |-> FALSE, pairs |-> <<>>, writable |-> TRUE]

\* the file after a write
File(dicts) == [exists |-> TRUE, pairs |-> dicts, writable |-> TRUE]

\* time.time() * 1000, and the creation time the venue stamps on order id
time_ms == 7

OrderTimestamp(id) == time_ms + id

Min(a, b) == IF a <= b THEN a ELSE b
Max(a, b) == IF a >= b THEN a ELSE b

SeqToSet(s) == {s[i] : i \in 1..Len(s)}

\* list.remove(x) on a sequence of values: the first element equal to x
RemoveFirst(s, x) ==
    LET idx == {i \in 1..Len(s) : s[i] = x}
        k   == CHOOSE i \in idx : \A j \in idx : i <= j
    IN  IF idx = {} THEN s
        ELSE SubSeq(s, 1, k - 1) \o SubSeq(s, k + 1, Len(s))

---------------------------------------------------------------------------
(* decimal.Decimal under the default context: a sign, the coefficient's    *)
(* digits (most significant first) and an exponent. Values are kept        *)
(* without leading or trailing zeros, so equal values are equal records,   *)
(* as Decimal.__eq__ compares by value.                                    *)

\* getcontext().prec: results are rounded to this many significant digits,
\* ROUND_HALF_EVEN
DecimalPrec == 28

RECURSIVE DigitsOf(_)
DigitsOf(n) == IF n < 10 THEN <<n>> ELSE Append(DigitsOf(n \div 10), n % 10)

RECURSIVE NatOf(_)
NatOf(d) ==
    IF d = <<>> THEN 0 ELSE 10 * NatOf(SubSeq(d, 1, Len(d) - 1)) + d[Len(d)]

RECURSIVE PowerOfTen(_)
PowerOfTen(k) == IF k = 0 THEN 1 ELSE 10 * PowerOfTen(k - 1)

Zeros(k) == [i \in 1..k |-> 0]

Reverse(s) == [i \in 1..Len(s) |-> s[Len(s) - i + 1]]

\* the digits without their leading zeros; <<0>> for zero
StripLeading(d) ==
    LET nz == {i \in 1..Len(d) : d[i] # 0}
    IN  IF nz = {} THEN <<0>>
        ELSE SubSeq(d, CHOOSE i \in nz : \A j \in nz : i <= j, Len(d))

\* the digits without their trailing zeros
StripTrailing(d) ==
    LET nz == {i \in 1..Len(d) : d[i] # 0}
    IN  IF nz = {} THEN <<0>>
        ELSE SubSeq(d, 1, CHOOSE i \in nz : \A j \in nz : i >= j)

DecimalZero == [neg |-> FALSE, digits |-> <<0>>, exp |-> 0]

\* the value (-1)^neg * digits * 10^exp
Decimal(neg, digits, exp) ==
    LET d == StripLeading(digits)
        t == StripTrailing(d)
    IN  IF d = <<0>> THEN DecimalZero
        ELSE [neg |-> neg, digits |-> t, exp |-> exp + (Len(d) - Len(t))]

\* Decimal(n) of an int
DecimalOf(n) == Decimal(n < 0, DigitsOf(IF n < 0 THEN 0 - n ELSE n), 0)

\* the int an integral decimal stands for
IntOf(x) == (IF x.neg THEN 0 - 1 ELSE 1) * NatOf(x.digits) * PowerOfTen(x.exp)

DecimalPositive(x) == ~x.neg /\ x # DecimalZero

\* a coefficient in groups of four digits, the least significant group first,
\* and back
DigitFromRight(d, p) == IF p <= Len(d) THEN d[Len(d) - p + 1] ELSE 0

Limbs(d) ==
    [k \in 1..((Len(d) + 3) \div 4) |->
        DigitFromRight(d, 4 * k - 3) + 10 * DigitFromRight(d, 4 * k - 2)
        + 100 * DigitFromRight(d, 4 * k - 1) + 1000 * DigitFromRight(d, 4 * k)]

DigitsOfLimbs(l) ==
    [i \in 1..(4 * Len(l)) |->
        LET p == 4 * Len(l) - i
        IN  (l[p \div 4 + 1] \div PowerOfTen(p % 4)) % 10]

\* the product of two coefficients of at most 28 digits: the column sums of
\* the groups, then the carries
Term(A, B, i, k) ==
    IF i <= Len(A) /\ k - i + 1 >= 1 /\ k - i + 1 <= Len(B)
    THEN A[i] * B[k - i + 1] ELSE 0

Column(A, B, k) ==
    Term(A, B, 1, k) + Term(A, B, 2, k) + Term(A, B, 3, k) + Term(A, B, 4, k)
    + Term(A, B, 5, k) + Term(A, B, 6, k) + Term(A, B, 7, k)

RECURSIVE CarryInto(_, _, _)
CarryInto(A, B, k) ==
    IF k = 1 THEN 0
    ELSE (Column(A, B, k - 1) + CarryInto(A, B, k - 1)) \div 10000

MulDigits(a, b) ==
    LET A == Limbs(a)
        B == Limbs(b)
    IN  StripLeading(DigitsOfLimbs(
            [k \in 1..(Len(A) + Len(B)) |->
                (Column(A, B, k) + CarryInto(A, B, k)) % 10000]))

\* the coefficient plus one
Increment(d) ==
    LET n9 == {i \in 1..Len(d) : d[i] # 9}
        j  == CHOOSE i \in n9 : \A k \in n9 : i >= k
    IN  IF n9 = {} THEN <<1>> \o Zeros(Len(d))
        ELSE [i \in 1..Len(d) |->
                IF i < j THEN d[i] ELSE IF i = j THEN d[i] + 1 ELSE 0]

\* the context's rounding of a coefficient of more than DecimalPrec digits;
\* inexact says that nonzero digits follow those given
RoundHalfEven(digits, exp, inexact) ==
    IF Len(digits) <= DecimalPrec THEN [digits |-> digits, exp |-> exp]
    ELSE LET keep == SubSeq(digits, 1, DecimalPrec)
             rest == SubSeq(digits, DecimalPrec + 1, Len(digits))
             more == inexact \/ \E i \in 2..Len(rest) : rest[i] # 0
             up   == \/ rest[1] > 5
                     \/ rest[1] = 5 /\ (more \/ keep[DecimalPrec] % 2 = 1)
         IN  [digits |-> IF up THEN Increment(keep) ELSE keep,
              exp |-> exp + Len(rest)]

\* x * y with no rounding
ExactProduct(x, y) ==
    Decimal(x.neg # y.neg, MulDigits(x.digits, y.digits), x.exp + y.exp)

\* Decimal.__mul__
DecimalMultiply(x, y) ==
    LET r == RoundHalfEven(MulDigits(x.digits, y.digits), x.exp + y.exp, FALSE)
    IN  Decimal(x.neg # y.neg, r.digits, r.exp)

\* long division of a coefficient, in groups of four digits from the most
\* significant, by an int: the quotient's groups and the remainder
RECURSIVE LongDivide(_, _, _, _)
LongDivide(l, n, r, q) ==
    IF l = <<>> THEN [q |-> q, r |-> r]
    ELSE LET t == 10000 * r + Head(l)
         IN  LongDivide(Tail(l), n, t % n, Append(q, t \div n))

\* Decimal.__truediv__, for a divisor whose coefficient is an int below
\* 200000; y is not zero. The dividend is given the zeros that make the
\* quotient longer than the precision.
DecimalDivide(x, y) ==
    LET n  == NatOf(y.digits)
        k  == DecimalPrec + 1 + Len(y.digits)
        ld == LongDivide(Reverse(Limbs(x.digits \o Zeros(k))), n, 0, <<>>)
        r  == RoundHalfEven(StripLeading(DigitsOfLimbs(Reverse(ld.q))),
                            x.exp - y.exp - k, ld.r # 0)
    IN  Decimal(x.neg # y.neg, r.digits, r.exp)

\* the prices and percentages calculate_grid_size is applied to:
\* 45000, 905, 12345.678901234567, 0.1234567890123456, 99999999999999.99
CalcPrices ==
    {DecimalOf(45000), DecimalOf(905),
     Decimal(FALSE, <<1,2,3,4,5,6,7,8,9,0,1,2,3,4,5,6,7>>, 0 - 12),
     Decimal(FALSE, <<1,2,3,4,5,6,7,8,9,0,1,2,3,4,5,6>>, 0 - 16),
     Decimal(FALSE, <<9,9,9,9,9,9,9,9,9,9,9,9,9,9,9,9>>, 0 - 2)}

\* 1, 0.5, 1.2345678901234, 1.234567890123456, 3.3333333333333
CalcGridsizes ==
    {DecimalOf(1), Decimal(FALSE, <<5>>, 0 - 1),
     Decimal(FALSE, <<1,2,3,4,5,6,7,8,9,0,1,2,3,4>>, 0 - 13),
     Decimal(FALSE, <<1,2,3,4,5,6,7,8,9,0,1,2,3,4,5,6>>, 0 - 15),
     Decimal(FALSE, <<3,3,3,3,3,3,3,3,3,3,3,3,3,3>>, 0 - 13)}

---------------------------------------------------------------------------
(* models.py *)

\* mutant: the whole investment goes into each trade
quote_per_trade_Investment == DecimalOf(config.investment)

\* BotConfig.quote_per_trade: investment / grids
quote_per_trade ==
    DecimalDivide(DecimalOf(config.investment), DecimalOf(config.grids))

\* OrderPair(...)
OrderPair(buy_id, sell_id, buy_price, sell_price, buy_type, amount, ts, status) ==
    [buy_order_id |-> buy_id, sell_order_id |-> sell_id,
     buy_price |-> buy_price, sell_price |-> sell_price,
     buy_type |-> buy_type, amount |-> amount, timestamp |-> ts,
     buy_order_status |-> status]

\* str(Decimal) / Decimal(str): the text of a decimal
DecimalStr(d) == <<"str", d>>
DecimalParse(s) == s[2]

\* "str(price) if price else None": None and Decimal 0 are both falsy
PriceToJson(p) == IF p # None /\ p # 0 THEN DecimalStr(p) ELSE <<"null">>
PriceFromJson(j) == IF j[1] # "null" THEN DecimalParse(j) ELSE None

\* OrderPair.to_dict
ToDict(p) ==
    [buy_order_id |-> p.buy_order_id, sell_order_id |-> p.sell_order_id,
     buy_price |-> PriceToJson(p.buy_price),
     sell_price |-> PriceToJson(p.sell_price),
     buy_type |-> p.buy_type, amount |-> DecimalStr(p.amount),
     timestamp |-> p.timestamp]

\* OrderPair.from_dict: buy_order_status is not passed and takes its default
FromDict(d) ==
    OrderPair(d.buy_order_id, d.sell_order_id, PriceFromJson(d.buy_price),
              PriceFromJson(d.sell_price), d.buy_type, DecimalParse(d.amount),
              d.timestamp, "none")

---------------------------------------------------------------------------
(* The registry *)

\* the rungs of a list of uids, by value
Rungs(uids) == [i \in 1..Len(uids) |-> heap[uids[i]]]

ActiveRungs == Rungs(order_pairs)

\* _save_order_pairs: the file's content
SavePairs(rungs) == File([i \in 1..Len(rungs) |-> ToDict(rungs[i])])

\* mutant: the file is never read
LoadPairs_Empty(file) == <<>>

\* _load_order_pairs: the list read from the file, empty when there is none
LoadPairs(file) ==
    IF ~file.exists THEN <<>>
    ELSE [i \in 1..Len(file.pairs) |-> FromDict(file.pairs[i])]

\* mutant: the percentage is taken as a fraction
CalculateGridSize_NoPercent(current_price, gridsize) ==
    DecimalMultiply(current_price, gridsize)

\* calculate_grid_size
CalculateGridSize(current_price, gridsize) ==
    DecimalDivide(DecimalMultiply(current_price, gridsize), DecimalOf(100))

\* the same for the whole prices and percentages of the runs below
calculate_grid_size(current_price) ==
    IntOf(CalculateGridSize(DecimalOf(current_price), DecimalOf(config.gridsize)))

\* Trade built from an order update (bot.py)
Trade(o) ==
    [order_id |-> o.id, side |-> o.side, price |-> o.price, amount |-> o.amount,
     timestamp |-> o.timestamp]

NoTrade == [order_id |-> None, side |-> "none", price |-> None, amount |-> None,
            timestamp |-> None]

---------------------------------------------------------------------------
(* The venue *)

Order(id, side, type, price, amount, status) ==
    [id |-> id, side |-> side, type |-> type, price |-> price, amount |-> amount,
     status |-> status, timestamp |-> OrderTimestamp(id)]

NextId == Len(venue) + 1

\* fetch_open_orders: the ids of the orders open on the venue
OpenOrderIds == {i \in 1..Len(venue) : venue[i].status = "open"}

\* cancel_order on the venue: an order that is no longer open stays as it is
VenueCancelled(v, id) ==
    IF id \in 1..Len(v) /\ v[id].status = "open"
    THEN [v EXCEPT ![id].status = "canceled"] ELSE v

\* one entry of a task's call log
Call(kind, id, amount, price) ==
    [call |-> kind, id |-> id, amount |-> amount, price |-> price]

\* _save_order_pairs raised
SaveError == Call("save_error", None, None, None)

CallsOf(log, kind) == {i \in 1..Len(log) : log[i].call = kind}

\* GridBot.__init__ builds GridStrategy(config, exchange): the strategy is
\* given no websocket
websocket == None

\* "if self.websocket: await self.websocket.send_update({'type': 'error', ...})"
\* in the except clauses of initialize_grid and handle_filled_order
ErrorNotified(log) ==
    IF websocket # None
    THEN Append(log, Call("send_error", None, None, None))
    ELSE log

\* "if self.websocket: await self.websocket.send_update({'type': 'trade', ...})"
\* at the head of handle_filled_order
TradeNotified(log) ==
    IF websocket # None
    THEN Append(log, Call("send_trade", None, None, None))
    ELSE log

\* "if self.websocket: await self.websocket.send_update({'type':
\* 'grid_status', ...})": the entry holds total_pairs under id, active_pairs
\* (the pairs with a sell order) under amount, completed_trades under price
StatusNotified(log, rungs, completed) ==
    IF websocket # None
    THEN Append(log, Call("send_grid_status", Len(rungs),
                          Cardinality({i \in 1..Len(rungs) :
                                         rungs[i].sell_order_id # None}),
                          Len(completed)))
    ELSE log

\* a gateway call may raise while the run has faults left
CanFail == used < MaxEvents
Failed == used + 1

---------------------------------------------------------------------------
(* Frames: the locals of the three coroutines. result is "none" (never    *)
(* run, or another operation has run since), "running", "ok" (returned)   *)
(* or "error" (raised). pre and pre_completed are the registry on entry.  *)

NoPair == OrderPair(None, None, None, None, "none", None, None, "none")

IniIdle ==
    [result |-> "none", fresh |-> FALSE, to_cancel |-> <<>>, found_open |-> {},
     i |-> 0, price |-> None, amount |-> None, pair |-> NoPair, log |-> <<>>]

HfIdle ==
    [result |-> "none", trade |-> NoTrade, pair |-> None, matched |-> FALSE,
     trailed |-> FALSE, price |-> None, lowest |-> None, lowest_index |-> 0,
     buy_amount |-> None, buy_order |-> None, buy_price |-> None,
     pre |-> <<>>, pre_completed |-> <<>>, tu_pre |-> <<>>, tu_uids |-> <<>>,
     log |-> <<>>]

HcIdle ==
    [result |-> "none", open_order_ids |-> {}, price |-> None,
     new_order_ids |-> {}, orders_updated |-> FALSE, copy |-> <<>>, i |-> 0,
     excess |-> None, scanned |-> <<>>, raised |-> 0, closed_before |-> {}, pre |-> <<>>, pre_completed |-> <<>>,
     log |-> <<>>]

\* no calculation asked for
CalcIdle ==
    [done |-> TRUE, price |-> DecimalZero, gridsize |-> DecimalZero,
     reference |-> None, grid_size |-> DecimalZero, amount |-> DecimalZero,
     buy_prices |-> <<>>, buy_amounts |-> <<>>]

\* WebSocketManager.__init__: not connected, nothing queued; pc is the place
\* of process_messages ("off": the task is not created). Messages are
\* numbered as send_update queues them; message is the one popped and not yet
\* sent, sent the ones the socket took, requeued whether one was put back.
WsIdle ==
    [connected |-> FALSE, message_queue |-> <<>>, pc |-> "off",
     message |-> None, sent |-> <<>>, queued |-> 0, requeued |-> FALSE]

\* an operation that starts makes the finished ones' frames stale
Stale(f, idle) == IF f.result = "running" THEN f ELSE idle

---------------------------------------------------------------------------
(* Initial states: the process is about to start, with or without --fresh, *)
(* no snapshot yet, and possibly orders placed by hand on the venue.       *)

PreexistingOrders(k) ==
    [i \in 1..k |-> Order(i, "buy", "limit", 900 - 100 * i, DecimalOf(1),
                          "open")]

InitCommon ==
    /\ config \in [grids : 1..MaxGrids, gridsize : GridsizeValues,
                   investment : InvestmentValues, fresh_start : BOOLEAN]
    /\ order_pairs = <<>>
    /\ completed_trades = <<>>
    /\ heap = <<>>
    /\ grid_size = 0
    /\ snapshot = NoFile
    /\ \E k \in 0..MaxPreexisting : venue = PreexistingOrders(k)
    /\ feed = <<>>
    /\ missed = {}
    /\ main_pc = "start"
    /\ wo_pc = "off"
    /\ mh_pc = "off"
    /\ ini = IniIdle
    /\ hf = HfIdle
    /\ hc = HcIdle
    /\ used = 0
    /\ calc = CalcIdle
    /\ ws_manager = WsIdle

Init == InitCommon /\ serial = TRUE

InitAsync == InitCommon /\ serial = FALSE

\* a first fresh start with one grid more than a later restart can ask for,
\* the tasks running as asyncio runs them
InitTrail ==
    /\ \E gridsize \in GridsizeValues, investment \in InvestmentValues :
          config = [grids |-> MaxGrids + 1, gridsize |-> gridsize,
                    investment |-> investment, fresh_start |-> TRUE]
    /\ order_pairs = <<>>
    /\ completed_trades = <<>>
    /\ heap = <<>>
    /\ grid_size = 0
    /\ snapshot = NoFile
    /\ venue = <<>>
    /\ feed = <<>>
    /\ missed = {}
    /\ main_pc = "start"
    /\ wo_pc = "off"
    /\ mh_pc = "off"
    /\ ini = IniIdle
    /\ hf = HfIdle
    /\ hc = HcIdle
    /\ used = 0
    /\ calc = CalcIdle
    /\ ws_manager = WsIdle
    /\ serial = FALSE

\* a strategy object just constructed, and the inputs of a calculation
InitCalc ==
    /\ config \in CalcConfigs
    /\ order_pairs = <<>>
    /\ completed_trades = <<>>
    /\ heap = <<>>
    /\ grid_size = 0
    /\ snapshot = NoFile
    /\ venue = <<>>
    /\ feed = <<>>
    /\ missed = {}
    /\ main_pc = "stopped"
    /\ wo_pc = "off"
    /\ mh_pc = "off"
    /\ ini = IniIdle
    /\ hf = HfIdle
    /\ hc = HcIdle
    /\ used = 0
    /\ serial = TRUE
    /\ ws_manager = WsIdle
    /\ \E p \in CalcPrices, g \in CalcGridsizes, r \in CalcReferences :
          calc = [CalcIdle EXCEPT !.done = FALSE, !.price = p, !.gridsize = g,
                                  !.reference = r]

---------------------------------------------------------------------------
(* GridBot.run -> initialize -> GridStrategy.initialize_grid *)

\* except Exception in initialize_grid re-raises; run() catches, cleans up
\* and returns without creating a task
InitRaise(log) ==
    /\ main_pc' = "stopped"
    /\ ini' = [ini EXCEPT !.result = "error", !.log = ErrorNotified(log)]
    /\ UNCHANGED <<wo_pc, mh_pc>>

\* initialize_grid returned: run() creates the tasks
InitReturn(log) ==
    /\ main_pc' = "running"
    /\ ini' = [ini EXCEPT !.result = "ok", !.log = log]
    /\ wo_pc' = "watch"
    /\ mh_pc' = "sleep"

\* the price and the size of the i-th limit buy of a fresh grid
InitBuyPrice(current_price, size, i) == current_price - (i * size)

\* mutant: the quotient, rounded once
InitBuyAmount_Quotient(price) ==
    DecimalDivide(quote_per_trade, DecimalOf(price))

\* quote_per_trade * (1 / price): the reciprocal is rounded first
InitBuyAmount(price) ==
    DecimalMultiply(quote_per_trade, DecimalDivide(DecimalOf(1), DecimalOf(price)))

\* the initial market buy's amount
InitMarketAmount(current_price) ==
    DecimalDivide(quote_per_trade, DecimalOf(current_price))

\* GridBot.initialize up to initialize_grid's first await
Start ==
    /\ main_pc = "start"
    /\ \/ \* exchange.initialize() or fetch_balance() raises
          /\ CanFail
          /\ used' = Failed
          /\ main_pc' = "stopped"
          /\ ini' = [IniIdle EXCEPT !.result = "error",
                                    !.fresh = config.fresh_start]
          /\ UNCHANGED <<order_pairs, heap, wo_pc, mh_pc>>
       \/ \* _load_order_pairs, then the fresh-start branch or the return
          LET loaded == LoadPairs(snapshot)
              frame  == [IniIdle EXCEPT !.result = "running",
                                        !.fresh = config.fresh_start]
          IN  /\ heap' = loaded
              /\ order_pairs' = [i \in 1..Len(loaded) |-> i]
              /\ IF config.fresh_start
                 THEN /\ main_pc' = "in_open"
                      /\ ini' = frame
                      /\ UNCHANGED <<wo_pc, mh_pc>>
                 ELSE /\ main_pc' = "running"
                      /\ ini' = [frame EXCEPT
                                  !.result = "ok",
                                  !.log = StatusNotified(@, loaded,
                                                         completed_trades)]
                      /\ wo_pc' = "watch"
                      /\ mh_pc' = "sleep"
              /\ UNCHANGED used
    /\ UNCHANGED <<config, completed_trades, grid_size, snapshot, venue, feed,
                   missed, hf, hc, serial, calc, ws_manager>>

\* the ids of a set in ascending order
RECURSIVE Ascending(_)
Ascending(S) ==
    IF S = {} THEN <<>>
    ELSE LET m == CHOOSE x \in S : \A y \in S : x <= y
         IN  <<m>> \o Ascending(S \ {m})

\* mutant: the loaded rungs survive the reset
FreshStartPairs_Kept == order_pairs

\* "self.order_pairs = []" after the cancellations
FreshStartPairs == <<>>

\* await fetch_open_orders() returns: the orders to cancel
InOpen ==
    /\ main_pc = "in_open"
    /\ \/ /\ CanFail
          /\ used' = Failed
          /\ InitRaise(ini.log)
          /\ UNCHANGED <<order_pairs, completed_trades>>
       \/ LET ids == Ascending(OpenOrderIds)
              log == Append(ini.log, Call("fetch_open_orders", None, None, None))
          IN  /\ UNCHANGED <<used, wo_pc, mh_pc>>
              /\ IF ids # <<>>
                 THEN /\ main_pc' = "in_cancel"
                      /\ ini' = [ini EXCEPT !.to_cancel = ids, !.log = log,
                                            !.found_open = OpenOrderIds]
                      /\ UNCHANGED <<order_pairs, completed_trades>>
                 ELSE /\ main_pc' = "in_ticker"
                      /\ ini' = [ini EXCEPT !.log = log]
                      /\ order_pairs' = FreshStartPairs
                      /\ completed_trades' = <<>>
    /\ UNCHANGED <<config, heap, grid_size, snapshot, venue, feed, missed, hf, hc,
                   serial, calc, ws_manager>>

\* await cancel_order(id) returns, for each order found open
InCancel ==
    /\ main_pc = "in_cancel"
    /\ \/ /\ CanFail
          /\ used' = Failed
          /\ InitRaise(ini.log)
          /\ UNCHANGED <<order_pairs, completed_trades, venue>>
       \/ LET id  == Head(ini.to_cancel)
              log == Append(ini.log, Call("cancel_order", id, None, None))
          IN  /\ venue' = VenueCancelled(venue, id)
              /\ ini' = [ini EXCEPT !.to_cancel = Tail(@), !.log = log]
              /\ UNCHANGED <<used, wo_pc, mh_pc>>
              /\ IF Len(ini.to_cancel) > 1
                 THEN UNCHANGED <<main_pc, order_pairs, completed_trades>>
                 ELSE /\ main_pc' = "in_ticker"
                      /\ order_pairs' = FreshStartPairs
                      /\ completed_trades' = <<>>
    /\ UNCHANGED <<config, heap, grid_size, snapshot, feed, missed, hf, hc, serial, calc, ws_manager>>

\* await fetch_ticker() returns: the grid size and the market buy's amount
InTicker ==
    /\ main_pc = "in_ticker"
    /\ \/ /\ CanFail
          /\ used' = Failed
          /\ InitRaise(ini.log)
          /\ UNCHANGED grid_size
       \/ \E current_price \in TickerPrices :
            /\ grid_size' = calculate_grid_size(current_price)
            /\ main_pc' = "in_market_buy"
            /\ ini' = [ini EXCEPT
                        !.price = current_price,
                        !.amount = InitMarketAmount(current_price),
                        !.log = StatusNotified(
                                  Append(@, Call("fetch_ticker", None, None,
                                                 current_price)),
                                  <<>>, <<>>)]
            /\ UNCHANGED <<used, wo_pc, mh_pc>>
    /\ UNCHANGED <<config, order_pairs, completed_trades, heap, snapshot, venue,
                   feed, missed, hf, hc, serial, calc, ws_manager>>

\* await create_market_buy_order(amount) returns: the initial pair
InMarketBuy ==
    /\ main_pc = "in_market_buy"
    /\ \/ /\ CanFail
          /\ used' = Failed
          /\ InitRaise(ini.log)
          /\ UNCHANGED venue
       \/ LET id == NextId
          IN  /\ venue' = Append(venue, Order(id, "buy", "market", ini.price,
                                              ini.amount, "closed"))
              /\ main_pc' = "in_sell"
              /\ ini' = [ini EXCEPT
                          !.pair = OrderPair(id, None, ini.price, None, "market",
                                             ini.amount, time_ms, "closed"),
                          !.log = Append(@, Call("market_buy", id, ini.amount,
                                                 None))]
              /\ UNCHANGED <<used, wo_pc, mh_pc>>
    /\ UNCHANGED <<config, order_pairs, completed_trades, heap, grid_size,
                   snapshot, feed, missed, hf, hc, serial, calc, ws_manager>>

\* mutant: the loop runs one buy too far
InitMoreBuys_OneMore(i) == i <= config.grids

\* "for i in range(1, self.config.grids)": whether buy i is still to place
InitMoreBuys(i) == i < config.grids

\* what follows the i-1 buys placed so far: the next buy, or the save and return
InitContinue(i, log, pairs, objects) ==
    IF InitMoreBuys(i)
    THEN IF InitBuyPrice(ini.price, grid_size, i) = 0
         THEN \* 1 / (current_price - i * grid_size): ZeroDivisionError
              /\ InitRaise(log)
              /\ UNCHANGED snapshot
         ELSE /\ main_pc' = "in_buy"
              /\ ini' = [ini EXCEPT !.i = i, !.log = log]
              /\ UNCHANGED <<snapshot, wo_pc, mh_pc>>
    ELSE IF snapshot.writable
         THEN /\ snapshot' = SavePairs([k \in 1..Len(pairs) |-> objects[pairs[k]]])
              /\ InitReturn(StatusNotified(
                                Append(log, Call("save", None, None, None)),
                                [k \in 1..Len(pairs) |-> objects[pairs[k]]],
                                completed_trades))
         ELSE \* _save_order_pairs raises inside the try
              /\ InitRaise(Append(log, SaveError))
              /\ UNCHANGED snapshot

\* await create_limit_sell_order(amount, price + grid_size) returns
InSell ==
    /\ main_pc = "in_sell"
    /\ \/ /\ CanFail
          /\ used' = Failed
          /\ InitRaise(ini.log)
          /\ UNCHANGED <<venue, heap, order_pairs, snapshot>>
       \/ LET id    == NextId
              price == ini.price + grid_size
              pair  == [ini.pair EXCEPT !.sell_order_id = id,
                                        !.sell_price = price]
              log   == Append(ini.log, Call("limit_sell", id, ini.amount, price))
          IN  /\ venue' = Append(venue, Order(id, "sell", "limit", price,
                                              ini.amount, "open"))
              /\ heap' = Append(heap, pair)
              /\ order_pairs' = Append(order_pairs, Len(heap) + 1)
              /\ InitContinue(1, log, order_pairs', heap')
              /\ UNCHANGED used
    /\ UNCHANGED <<config, completed_trades, grid_size, feed, missed, hf, hc,
                   serial, calc, ws_manager>>

\* await create_limit_buy_order(buy_amount, buy_price) returns, for i = ini.i
InBuy ==
    /\ main_pc = "in_buy"
    /\ \/ /\ CanFail
          /\ used' = Failed
          /\ InitRaise(ini.log)
          /\ UNCHANGED <<venue, heap, order_pairs, snapshot>>
       \/ LET id     == NextId
              price  == InitBuyPrice(ini.price, grid_size, ini.i)
              amount == InitBuyAmount(price)
              pair   == OrderPair(id, None, price, None, "limit", amount,
                                  time_ms, "open")
              log    == Append(ini.log, Call("limit_buy", id, amount, price))
          IN  /\ venue' = Append(venue, Order(id, "buy", "limit", price, amount,
                                              "open"))
              /\ UNCHANGED used
              /\ IF DecimalPositive(amount)
                 THEN /\ heap' = Append(heap, pair)
                      /\ order_pairs' = Append(order_pairs, Len(heap) + 1)
                      /\ InitContinue(ini.i + 1, log, order_pairs', heap')
                 ELSE \* OrderPair(amount=...) fails validation: amount > 0
                      /\ InitRaise(log)
                      /\ UNCHANGED <<heap, order_pairs, snapshot>>
    /\ UNCHANGED <<config, completed_trades, grid_size, feed, missed, hf, hc,
                   serial, calc, ws_manager>>

\* the calculations of initialize_grid applied on their own:
\* calculate_grid_size to a price and a percentage, and the amounts and prices
\* of a fresh grid to a reference price
Calculate ==
    /\ ~calc.done
    /\ LET size   == calculate_grid_size(calc.reference)
           count  == Cardinality({i \in 1..config.grids : InitMoreBuys(i)})
           prices == [i \in 1..count |-> InitBuyPrice(calc.reference, size, i)]
       IN  calc' = [calc EXCEPT
                     !.done = TRUE,
                     !.grid_size = CalculateGridSize(calc.price, calc.gridsize),
                     !.amount = InitMarketAmount(calc.reference),
                     !.buy_prices = prices,
                     !.buy_amounts = [i \in 1..count |-> InitBuyAmount(prices[i])]]
    /\ UNCHANGED <<config, order_pairs, completed_trades, heap, grid_size,
                   snapshot, venue, feed, missed, main_pc, wo_pc, mh_pc, ini, hf,
                   hc, used, serial, ws_manager>>

InitStep == Start \/ InOpen \/ InCancel \/ InTicker \/ InMarketBuy \/ InSell \/ InBuy

---------------------------------------------------------------------------
(* The venue's own moves, and the process being stopped and started again *)

\* an open limit order fills; the order stream delivers the update to a
\* watching process, or drops it
VenueFill ==
    /\ used < MaxEvents
    /\ \E id \in OpenOrderIds :
         /\ venue[id].type = "limit"
         /\ venue' = [venue EXCEPT ![id].status = "closed"]
         /\ \/ /\ wo_pc # "off"
               /\ feed' = Append(feed, id)
               /\ UNCHANGED missed
            \/ /\ missed' = missed \cup {id}
               /\ UNCHANGED feed
    /\ used' = used + 1
    /\ UNCHANGED <<config, order_pairs, completed_trades, heap, grid_size,
                   snapshot, main_pc, wo_pc, mh_pc, ini, hf, hc, serial, calc, ws_manager>>

\* an open order is cancelled outside the engine
VenueCancel ==
    /\ used < MaxEvents
    /\ \E id \in OpenOrderIds : venue' = VenueCancelled(venue, id)
    /\ used' = used + 1
    /\ UNCHANGED <<config, order_pairs, completed_trades, heap, grid_size,
                   snapshot, feed, missed, main_pc, wo_pc, mh_pc, ini, hf, hc,
                   serial, calc, ws_manager>>

\* the snapshot file stops being writable (disk full, permissions), or is
\* writable again
DiskFault ==
    /\ used < MaxEvents
    /\ snapshot' = [snapshot EXCEPT !.writable = ~@]
    /\ used' = used + 1
    /\ UNCHANGED <<config, order_pairs, completed_trades, heap, grid_size, venue,
                   feed, missed, main_pc, wo_pc, mh_pc, ini, hf, hc, serial, calc, ws_manager>>

\* the process ends (its tasks cancelled where they are suspended) and a new
\* one is started, with or without --fresh and with the grid count of the
\* configuration it then reads: GridBot.__init__ and GridStrategy.__init__
Restart ==
    /\ used < MaxEvents
    /\ main_pc \in {"running", "stopped"}
    /\ \E fresh \in BOOLEAN, grids \in 1..MaxGrids :
         config' = [config EXCEPT !.fresh_start = fresh, !.grids = grids]
    /\ order_pairs' = <<>>
    /\ completed_trades' = <<>>
    /\ heap' = <<>>
    /\ grid_size' = 0
    /\ feed' = <<>>
    /\ missed' = missed \cup SeqToSet(feed)
    /\ main_pc' = "start"
    /\ wo_pc' = "off"
    /\ mh_pc' = "off"
    /\ ini' = IniIdle
    /\ hf' = HfIdle
    /\ hc' = HcIdle
    /\ used' = used + 1
    /\ UNCHANGED <<snapshot, venue, serial, calc, ws_manager>>

---------------------------------------------------------------------------
(* GridBot._watch_orders -> GridStrategy.handle_filled_order -> _trail_up *)

WoIdle == wo_pc \in {"off", "watch", "wo_sleep"}
MhIdle == mh_pc \in {"off", "sleep"}

\* the first rung of the list whose field f holds id, or None
FirstWith(uids, objects, f, id) ==
    LET idx == {i \in 1..Len(uids) : objects[uids[i]][f] = id}
    IN  IF idx = {} THEN None
        ELSE uids[CHOOSE i \in idx : \A j \in idx : i <= j]

\* list.remove(pair): pydantic models compare by value
RemovePair(uids, objects, uid) ==
    LET idx == {i \in 1..Len(uids) : objects[uids[i]] = objects[uid]}
        k   == CHOOSE i \in idx : \A j \in idx : i <= j
    IN  SubSeq(uids, 1, k - 1) \o SubSeq(uids, k + 1, Len(uids))

\* mutant: a sell fill that matches no rung completes the last rung
SellFillPair_ElseLast(uids, objects, id) ==
    IF FirstWith(uids, objects, "sell_order_id", id) # None
    THEN FirstWith(uids, objects, "sell_order_id", id)
    ELSE IF uids = <<>> THEN None ELSE uids[Len(uids)]

\* the rung a sell fill completes: the first whose sell order id is the
\* trade's, or None
SellFillPair(uids, objects, id) == FirstWith(uids, objects, "sell_order_id", id)

\* mutant: every closed order is taken for a fill
IsFill_AnyType(order) == order.status = "closed"

\* "status == 'closed' and type == 'limit'" in _watch_orders
IsFill(order) == order.status = "closed" /\ order.type = "limit"

\* mutant: the "is not None" test is dropped, so a pair without a sell order
\* counts as holding another one
LastSellOrder_NoneCounts(uids, objects, order_id) ==
    \A i \in 1..Len(uids) : ~(objects[uids[i]].sell_order_id # order_id)

\* _last_sell_order(order_id): no pair holds another sell order
LastSellOrder(uids, objects, order_id) ==
    \A i \in 1..Len(uids) :
        ~(objects[uids[i]].sell_order_id # order_id
          /\ objects[uids[i]].sell_order_id # None)

\* mutant: the replacement buy goes out at the price the rung sold at
SellFillBuyPrice_AtSellPrice(completed_pair) == completed_pair.sell_price

\* the price of the buy that replaces a rung whose sell filled
SellFillBuyPrice(completed_pair) == completed_pair.buy_price

\* mutant: the sell goes out at the fill price, the increment forgotten
BuyFillSellPrice_NoIncrement(trade) == trade.price

\* the price of the sell placed for a filled buy
BuyFillSellPrice(trade) == trade.price + grid_size

\* mutant: the comparison is turned round and the highest buy is picked
LowestBuyIndex_Highest(uids, objects) ==
    LET idx == {i \in 1..Len(uids) : objects[uids[i]].buy_order_id # None}
    IN  IF idx = {} THEN 0
        ELSE CHOOSE i \in idx :
               \A j \in idx :
                  \/ objects[uids[i]].buy_price > objects[uids[j]].buy_price
                  \/ /\ objects[uids[i]].buy_price = objects[uids[j]].buy_price
                     /\ i <= j

\* _trail_up's scan: the index of the first pair with the lowest buy price
\* among those holding a buy order id, 0 when there is none
LowestBuyIndex(uids, objects) ==
    LET idx == {i \in 1..Len(uids) : objects[uids[i]].buy_order_id # None}
    IN  IF idx = {} THEN 0
        ELSE CHOOSE i \in idx :
               \A j \in idx :
                  \/ objects[uids[i]].buy_price < objects[uids[j]].buy_price
                  \/ /\ objects[uids[i]].buy_price = objects[uids[j]].buy_price
                     /\ i <= j

\* the end of handle_filled_order: _save_order_pairs, then back to the watch
\* loop; when the write raises, the except clause re-raises and _watch_orders
\* catches and sleeps
HfSave(frame, uids, objects, log) ==
    IF snapshot.writable
    THEN /\ snapshot' = SavePairs([k \in 1..Len(uids) |-> objects[uids[k]]])
         /\ wo_pc' = "watch"
         /\ hf' = [frame EXCEPT
                    !.result = "ok",
                    !.log = StatusNotified(
                              Append(log, Call("save", None, None, None)),
                              [k \in 1..Len(uids) |-> objects[uids[k]]],
                              completed_trades')]
    ELSE /\ UNCHANGED snapshot
         /\ wo_pc' = "wo_sleep"
         /\ hf' = [frame EXCEPT !.result = "error",
                                !.log = ErrorNotified(Append(log, SaveError))]

HfReturn(uids, objects, log) == HfSave(hf, uids, objects, log)

\* handle_filled_order raises: _watch_orders catches and sleeps
HfRaise ==
    /\ wo_pc' = "wo_sleep"
    /\ hf' = [hf EXCEPT !.result = "error", !.log = ErrorNotified(@)]
    /\ used' = Failed

\* await watch_orders() returns one update; a fill enters handle_filled_order,
\* which runs to its first gateway call
WoReceive ==
    /\ wo_pc = "watch"
    /\ feed # <<>>
    /\ serial => MhIdle
    /\ feed' = Tail(feed)
    /\ LET order == venue[Head(feed)]
           trade == Trade(order)
           frame == [HfIdle EXCEPT !.result = "running", !.trade = trade,
                                   !.log = TradeNotified(@),
                                   !.pre = ActiveRungs,
                                   !.pre_completed = Rungs(completed_trades)]
       IN  IF ~IsFill(order)
           THEN UNCHANGED <<order_pairs, completed_trades, heap, snapshot, wo_pc,
                            hf, hc, ini>>
           ELSE /\ hc' = Stale(hc, HcIdle)
                /\ ini' = Stale(ini, IniIdle)
                /\ IF trade.side = "buy"
                   THEN LET found == FirstWith(order_pairs, heap, "buy_order_id",
                                               trade.order_id)
                            new   == OrderPair(trade.order_id, None, trade.price,
                                               None, "none", trade.amount,
                                               trade.timestamp, "none")
                        IN  /\ wo_pc' = "hf_sell"
                            /\ UNCHANGED <<completed_trades, snapshot>>
                            /\ IF found # None
                               THEN /\ hf' = [frame EXCEPT !.pair = found,
                                                           !.matched = TRUE]
                                    /\ UNCHANGED <<order_pairs, heap>>
                               ELSE /\ heap' = Append(heap, new)
                                    /\ order_pairs' =
                                         Append(order_pairs, Len(heap) + 1)
                                    /\ hf' = [frame EXCEPT !.pair = Len(heap) + 1]
                   ELSE LET found == SellFillPair(order_pairs, heap,
                                                  trade.order_id)
                        IN  IF found # None
                            THEN /\ order_pairs' =
                                      RemovePair(order_pairs, heap, found)
                                 /\ completed_trades' =
                                      Append(completed_trades, found)
                                 /\ wo_pc' = "hf_buy"
                                 /\ hf' = [frame EXCEPT !.pair = found,
                                                        !.matched = TRUE]
                                 /\ UNCHANGED <<heap, snapshot>>
                            ELSE /\ HfSave(frame, order_pairs, heap, frame.log)
                                 /\ UNCHANGED <<order_pairs, completed_trades,
                                                heap>>
    /\ UNCHANGED <<config, grid_size, venue, missed, main_pc, mh_pc, used, serial, calc, ws_manager>>

\* buy fill: await create_limit_sell_order(trade.amount, sell_price) returns
HfSell ==
    /\ wo_pc = "hf_sell"
    /\ \/ /\ CanFail
          /\ HfRaise
          /\ UNCHANGED <<venue, heap, snapshot>>
       \/ LET id    == NextId
              price == BuyFillSellPrice(hf.trade)
              log   == Append(hf.log, Call("limit_sell", id, hf.trade.amount,
                                           price))
          IN  /\ venue' = Append(venue, Order(id, "sell", "limit", price,
                                              hf.trade.amount, "open"))
              /\ heap' = [heap EXCEPT ![hf.pair].sell_order_id = id,
                                      ![hf.pair].sell_price = price,
                                      ![hf.pair].buy_order_status = "closed"]
              /\ HfReturn(order_pairs, heap', log)
              /\ UNCHANGED used
    /\ UNCHANGED <<config, order_pairs, completed_trades, grid_size, feed, missed,
                   main_pc, mh_pc, ini, hc, serial, calc, ws_manager>>

\* sell fill: await create_limit_buy_order(completed_pair.amount, buy_price)
\* returns; the new pair, then trail-up when no other sell order is left
HfBuy ==
    /\ wo_pc = "hf_buy"
    /\ \/ /\ CanFail
          /\ HfRaise
          /\ UNCHANGED <<venue, heap, order_pairs, snapshot>>
       \/ LET id     == NextId
              done   == heap[hf.pair]
              price  == SellFillBuyPrice(done)
              pair   == OrderPair(id, None, price, None, "none", hf.trade.amount,
                                  hf.trade.timestamp, "open")
              log    == Append(hf.log, Call("limit_buy", id, done.amount, price))
          IN  /\ venue' = Append(venue, Order(id, "buy", "limit", price,
                                              done.amount, "open"))
              /\ heap' = Append(heap, pair)
              /\ order_pairs' = Append(order_pairs, Len(heap) + 1)
              /\ UNCHANGED used
              /\ IF LastSellOrder(order_pairs', heap', hf.trade.order_id)
                 THEN /\ wo_pc' = "tu_ticker"
                      /\ hf' = [hf EXCEPT !.trailed = TRUE, !.log = log,
                                          !.tu_pre = Rungs(order_pairs)',
                                          !.tu_uids = order_pairs']
                      /\ UNCHANGED snapshot
                 ELSE HfReturn(order_pairs', heap', log)
    /\ UNCHANGED <<config, completed_trades, grid_size, feed, missed, main_pc,
                   mh_pc, ini, hc, serial, calc, ws_manager>>

\* _trail_up: await fetch_ticker() returns; the lowest buy is chosen
TuTicker ==
    /\ wo_pc = "tu_ticker"
    /\ \/ /\ CanFail
          /\ HfRaise
          /\ UNCHANGED snapshot
       \/ \E current_price \in TickerPrices :
            LET k   == LowestBuyIndex(order_pairs, heap)
                log == Append(hf.log, Call("fetch_ticker", None, None,
                                           current_price))
            IN  /\ UNCHANGED used
                /\ IF k = 0
                   THEN HfReturn(order_pairs, heap, log)
                   ELSE /\ wo_pc' = "tu_cancel"
                        /\ hf' = [hf EXCEPT !.price = current_price,
                                            !.lowest = order_pairs[k],
                                            !.lowest_index = k, !.log = log]
                        /\ UNCHANGED snapshot
    /\ UNCHANGED <<config, order_pairs, completed_trades, heap, grid_size, venue,
                   feed, missed, main_pc, mh_pc, ini, hc, serial, calc, ws_manager>>

\* _trail_up: await cancel_order(lowest_buy_order.buy_order_id) returns
TuCancel ==
    /\ wo_pc = "tu_cancel"
    /\ \/ /\ CanFail
          /\ HfRaise
          /\ UNCHANGED venue
       \/ LET id == heap[hf.lowest].buy_order_id
          IN  /\ venue' = VenueCancelled(venue, id)
              /\ wo_pc' = "tu_market_buy"
              /\ hf' = [hf EXCEPT
                         !.buy_amount = DecimalDivide(quote_per_trade,
                                                      DecimalOf(hf.price)),
                         !.log = Append(@, Call("cancel_order", id, None, None))]
              /\ UNCHANGED used
    /\ UNCHANGED <<config, order_pairs, completed_trades, heap, grid_size,
                   snapshot, feed, missed, main_pc, mh_pc, ini, hc, serial, calc, ws_manager>>

\* _trail_up: await create_market_buy_order(buy_amount) returns, filled at the
\* price the ticker has just reported; the order stream will report the order
\* as closed
TuMarketBuy ==
    /\ wo_pc = "tu_market_buy"
    /\ \/ /\ CanFail
          /\ HfRaise
          /\ UNCHANGED <<venue, feed>>
       \/ LET id == NextId
               fill_price == hf.price
            IN  /\ venue' = Append(venue, Order(id, "buy", "market", fill_price,
                                                hf.buy_amount, "closed"))
                /\ feed' = Append(feed, id)
                /\ wo_pc' = "tu_sell"
                /\ hf' = [hf EXCEPT
                           !.buy_order = id, !.buy_price = fill_price,
                           !.log = Append(@, Call("market_buy", id,
                                                  hf.buy_amount, None))]
                /\ UNCHANGED used
    /\ UNCHANGED <<config, order_pairs, completed_trades, heap, grid_size,
                   snapshot, missed, main_pc, mh_pc, ini, hc, serial, calc, ws_manager>>

\* the sell price of the pair trail-up creates
TrailUpSellPrice(current_price) == current_price + grid_size

\* order_pairs[lowest_buy_index] = new_pair
ReplaceAt(uids, k, uid) == [uids EXCEPT ![k] = uid]

\* _trail_up: await create_limit_sell_order(buy_amount, sell_price) returns;
\* the new pair takes the lowest pair's place, and both saves follow
TuSell ==
    /\ wo_pc = "tu_sell"
    /\ \/ /\ CanFail
          /\ HfRaise
          /\ UNCHANGED <<venue, heap, order_pairs, snapshot>>
       \/ LET id    == NextId
              price == TrailUpSellPrice(hf.price)
              pair  == OrderPair(hf.buy_order, id, hf.buy_price, price, "none",
                                 hf.buy_amount, time_ms, "closed")
              log   == Append(hf.log, Call("limit_sell", id, hf.buy_amount,
                                           price))
          IN  /\ venue' = Append(venue, Order(id, "sell", "limit", price,
                                              hf.buy_amount, "open"))
              /\ heap' = Append(heap, pair)
              /\ IF hf.lowest_index <= Len(order_pairs)
                 THEN /\ order_pairs' =
                           ReplaceAt(order_pairs, hf.lowest_index, Len(heap) + 1)
                      /\ HfReturn(order_pairs', heap',
                                  Append(log, Call("save", None, None, None)))
                      /\ UNCHANGED used
                 ELSE \* IndexError: list assignment index out of range
                      /\ wo_pc' = "wo_sleep"
                      /\ hf' = [hf EXCEPT !.result = "error", !.log = log]
                      /\ UNCHANGED <<order_pairs, snapshot, used>>
    /\ UNCHANGED <<config, completed_trades, grid_size, feed, missed, main_pc,
                   mh_pc, ini, hc, serial, calc, ws_manager>>

\* await asyncio.sleep(5) returns: the watch loop goes on
WoSleep ==
    /\ wo_pc = "wo_sleep"
    /\ wo_pc' = "watch"
    /\ UNCHANGED <<config, order_pairs, completed_trades, heap, grid_size,
                   snapshot, venue, feed, missed, main_pc, mh_pc, ini, hf, hc,
                   used, serial, calc, ws_manager>>

FillStep ==
    WoReceive \/ HfSell \/ HfBuy \/ TuTicker \/ TuCancel \/ TuMarketBuy \/ TuSell
    \/ WoSleep

---------------------------------------------------------------------------
(* GridBot._monitor_health -> GridStrategy.check_order_health *)

\* the buy-leg test of the scan
NeedsBuyCheck(pair, open_order_ids) ==
    /\ pair.buy_order_status = "open"
    /\ pair.buy_order_id # None
    /\ pair.buy_order_id \notin open_order_ids
    /\ pair.buy_type = "limit"

\* the sell-leg test of the scan
NeedsSellCheck(pair, open_order_ids) ==
    /\ pair.sell_order_id # None
    /\ pair.sell_order_id \notin open_order_ids

\* the scan from pair i of the copy ("top": at the head of the loop body,
\* "mid": after the buy leg's block) to its next fetch_order, or to the trim
RECURSIVE HcNext(_, _, _, _)
HcNext(i, at, objects, frame) ==
    IF i > Len(frame.copy) THEN [pc |-> "trim", i |-> i]
    ELSE LET pair == objects[frame.copy[i]]
         IN  IF at = "top"
             THEN IF pair.buy_order_id \in frame.new_order_ids
                  THEN HcNext(i + 1, "top", objects, frame)
                  ELSE IF NeedsBuyCheck(pair, frame.open_order_ids)
                       THEN [pc |-> "hc_buy_status", i |-> i]
                       ELSE HcNext(i, "mid", objects, frame)
             ELSE IF pair.sell_order_id \in frame.new_order_ids
                  THEN HcNext(i + 1, "top", objects, frame)
                  ELSE IF NeedsSellCheck(pair, frame.open_order_ids)
                       THEN [pc |-> "hc_sell_status", i |-> i]
                       ELSE HcNext(i + 1, "top", objects, frame)

\* mutant: the trim stops one pair early
Excess_OffByOne(uids) == Len(uids) > config.grids + 1

\* "while len(self.order_pairs) > self.config.grids"
Excess(uids) == Len(uids) > config.grids

\* the trim loop's pops up to the next cancel_order
RECURSIVE TrimPlan(_, _)
TrimPlan(uids, objects) ==
    IF ~Excess(uids)
    THEN [pc |-> "done", uids |-> uids, excess |-> None]
    ELSE LET last == uids[Len(uids)]
             rest == SubSeq(uids, 1, Len(uids) - 1)
         IN  IF objects[last].buy_order_id # None
             THEN [pc |-> "hc_trim_buy", uids |-> rest, excess |-> last]
             ELSE IF objects[last].sell_order_id # None
                  THEN [pc |-> "hc_trim_sell", uids |-> rest, excess |-> last]
                  ELSE TrimPlan(rest, objects)

\* mutant: every pass writes the snapshot
SaveWanted_Always(frame) == TRUE

\* "if orders_updated:"
SaveWanted(frame) == frame.orders_updated

\* the trim loop, then "if orders_updated: save" and the return
HcTrimStep(uids, objects, frame) ==
    LET plan == TrimPlan(uids, objects)
    IN  /\ order_pairs' = plan.uids
        /\ IF plan.pc = "done"
           THEN /\ mh_pc' = "sleep"
                /\ IF SaveWanted(frame)
                   THEN IF snapshot.writable
                        THEN /\ snapshot' = SavePairs([k \in 1..Len(plan.uids) |->
                                                          objects[plan.uids[k]]])
                             /\ hc' = [frame EXCEPT
                                        !.result = "ok",
                                        !.log = Append(@, Call("save", None, None,
                                                               None))]
                        ELSE \* the write raises: _monitor_health catches
                             /\ UNCHANGED snapshot
                             /\ hc' = [frame EXCEPT
                                        !.result = "error",
                                        !.log = Append(@, SaveError)]
                   ELSE /\ hc' = [frame EXCEPT !.result = "ok"]
                        /\ UNCHANGED snapshot
           ELSE /\ mh_pc' = plan.pc
                /\ hc' = [frame EXCEPT !.excess = plan.excess]
                /\ UNCHANGED snapshot

\* the scan goes on from pair i
HcContinue(i, at, uids, objects, frame) ==
    LET nx == HcNext(i, at, objects, frame)
    IN  IF nx.pc = "trim"
        THEN HcTrimStep(uids, objects,
                        [frame EXCEPT !.i = nx.i,
                                      !.scanned = [k \in 1..Len(uids) |->
                                                     objects[uids[k]]]])
        ELSE /\ mh_pc' = nx.pc
             /\ hc' = [frame EXCEPT !.i = nx.i]
             /\ order_pairs' = uids
             /\ UNCHANGED snapshot

\* an exception leaves check_order_health: _monitor_health catches it
HcRaise ==
    /\ mh_pc' = "sleep"
    /\ hc' = [hc EXCEPT !.result = "error"]
    /\ used' = Failed

\* the pair the scan is at
HcPair == heap[hc.copy[hc.i]]

\* a gateway call of the scan may raise: at most MaxRaised times in a pass
HcCanFail == hc.raised < MaxRaised

\* mutant: the exception ends the scan
HcCaught_EndsScan == [hc EXCEPT !.raised = @ + 1, !.copy = SubSeq(@, 1, hc.i)]

\* a per-pair exception, caught inside the loop
HcCaught == [hc EXCEPT !.raised = @ + 1]

\* mutant: the sell goes one increment above the buy price, whatever the market
BuyClosedSellPrice_AtBuyPrice(pair, current_price) == pair.buy_price + grid_size

\* the repair prices of the scan
BuyClosedSellPrice(pair, current_price) ==
    Max(current_price + grid_size, pair.buy_price + grid_size)

\* mutant: the buy is replaced at the market price, even above the old one
BuyCanceledBuyPrice_AtMarket(pair, current_price) == current_price

BuyCanceledBuyPrice(pair, current_price) == Min(current_price, pair.buy_price)

\* mutant: the replacement buy goes one increment under the old sell price
SellClosedBuyPrice_AtSellPrice(pair, current_price) == pair.sell_price - grid_size

SellClosedBuyPrice(pair, current_price) ==
    Min(current_price - grid_size, pair.sell_price - grid_size)

\* mutant: the sell is replaced at the market price, even below the old one
SellCanceledSellPrice_AtMarket(pair, current_price) == current_price

SellCanceledSellPrice(pair, current_price) == Max(current_price, pair.sell_price)

\* await asyncio.sleep(60) returns: check_order_health is entered
MhWake ==
    /\ mh_pc = "sleep"
    /\ serial => WoIdle
    /\ mh_pc' = "hc_open"
    /\ hc' = [HcIdle EXCEPT
               !.result = "running", !.pre = ActiveRungs,
               !.pre_completed = Rungs(completed_trades),
               !.closed_before = {id \in 1..Len(venue) :
                                    venue[id].status = "closed"}]
    /\ hf' = Stale(hf, HfIdle)
    /\ ini' = Stale(ini, IniIdle)
    /\ UNCHANGED <<config, order_pairs, completed_trades, heap, grid_size,
                   snapshot, venue, feed, missed, main_pc, wo_pc, used, serial, calc, ws_manager>>

\* await fetch_open_orders() returns
HcOpen ==
    /\ mh_pc = "hc_open"
    /\ \/ /\ CanFail
          /\ HcRaise
       \/ /\ mh_pc' = "hc_ticker"
          /\ hc' = [hc EXCEPT
                     !.open_order_ids = OpenOrderIds,
                     !.log = Append(@, Call("fetch_open_orders", None, None,
                                            None))]
          /\ UNCHANGED used
    /\ UNCHANGED <<config, order_pairs, completed_trades, heap, grid_size,
                   snapshot, venue, feed, missed, main_pc, wo_pc, ini, hf, serial, calc, ws_manager>>

\* mutant: the pass recomputes the grid size from the price it fetched
HealthCheckGridSize_Recomputed(current_price) ==
    calculate_grid_size(current_price)

\* self.grid_size after the pass has fetched the price: it is not assigned
HealthCheckGridSize(current_price) == grid_size

\* await fetch_ticker() returns: the scan starts on a copy of the list
HcTicker ==
    /\ mh_pc = "hc_ticker"
    /\ \/ /\ CanFail
          /\ HcRaise
          /\ UNCHANGED <<order_pairs, snapshot, grid_size>>
       \/ \E current_price \in HealthTickerPrices :
            /\ HcContinue(1, "top", order_pairs, heap,
                          [hc EXCEPT
                            !.price = current_price, !.copy = order_pairs,
                            !.log = Append(@, Call("fetch_ticker", None, None,
                                                   current_price))])
            /\ grid_size' = HealthCheckGridSize(current_price)
            /\ UNCHANGED used
    /\ UNCHANGED <<config, completed_trades, heap, venue, feed, missed,
                   main_pc, wo_pc, ini, hf, serial, calc, ws_manager>>

\* await fetch_order(pair.buy_order_id) returns
HcBuyStatus ==
    /\ mh_pc = "hc_buy_status"
    /\ \/ /\ HcCanFail
          /\ UNCHANGED used
          /\ HcContinue(hc.i, "mid", order_pairs, heap, HcCaught)
          /\ UNCHANGED heap
       \/ LET status == venue[HcPair.buy_order_id].status
              frame  == [hc EXCEPT !.log = Append(@, Call("fetch_order",
                                                  HcPair.buy_order_id, None, None))]
          IN  /\ UNCHANGED used
              /\ IF status = "closed"
                 THEN /\ heap' = [heap EXCEPT
                                   ![hc.copy[hc.i]].buy_order_status = "closed"]
                      /\ mh_pc' = "hc_buy_closed"
                      /\ hc' = frame
                      /\ UNCHANGED <<order_pairs, snapshot>>
                 ELSE IF status = "canceled"
                      THEN /\ mh_pc' = "hc_buy_canceled"
                           /\ hc' = frame
                           /\ UNCHANGED <<heap, order_pairs, snapshot>>
                      ELSE /\ HcContinue(hc.i, "mid", order_pairs, heap, frame)
                           /\ UNCHANGED heap
    /\ UNCHANGED <<config, completed_trades, grid_size, venue, feed, missed,
                   main_pc, wo_pc, ini, hf, serial, calc, ws_manager>>

\* buy found closed: await create_limit_sell_order(pair.amount, sell_price)
HcBuyClosed ==
    /\ mh_pc = "hc_buy_closed"
    /\ \/ /\ HcCanFail
          /\ UNCHANGED used
          /\ HcContinue(hc.i, "mid", order_pairs, heap, HcCaught)
          /\ UNCHANGED <<heap, venue>>
       \/ LET id    == NextId
              price == BuyClosedSellPrice(HcPair, hc.price)
              frame == [hc EXCEPT
                         !.orders_updated = TRUE,
                         !.new_order_ids = @ \cup {id},
                         !.log = Append(@, Call("limit_sell", id, HcPair.amount,
                                                price))]
          IN  /\ venue' = Append(venue, Order(id, "sell", "limit", price,
                                              HcPair.amount, "open"))
              /\ heap' = [heap EXCEPT ![hc.copy[hc.i]].sell_order_id = id,
                                      ![hc.copy[hc.i]].sell_price = price]
              /\ HcContinue(hc.i, "mid", order_pairs, heap', frame)
              /\ UNCHANGED used
    /\ UNCHANGED <<config, completed_trades, grid_size, feed, missed, main_pc,
                   wo_pc, ini, hf, serial, calc, ws_manager>>

\* mutant: the rung takes the size of a new trade at the new price
BuyCanceledRung_Resized(pair, id, price) ==
    [pair EXCEPT !.buy_order_id = id, !.buy_price = price,
                 !.amount = DecimalDivide(quote_per_trade, DecimalOf(price))]

\* "pair.buy_order_id = buy_order['id']; pair.buy_price = ...": the rung after
\* its cancelled buy was placed again
BuyCanceledRung(pair, id, price) ==
    [pair EXCEPT !.buy_order_id = id, !.buy_price = price]

\* buy found canceled: await create_limit_buy_order(pair.amount, new_buy_price)
HcBuyCanceled ==
    /\ mh_pc = "hc_buy_canceled"
    /\ \/ /\ HcCanFail
          /\ UNCHANGED used
          /\ HcContinue(hc.i, "mid", order_pairs, heap, HcCaught)
          /\ UNCHANGED <<heap, venue>>
       \/ LET id    == NextId
              price == BuyCanceledBuyPrice(HcPair, hc.price)
              frame == [hc EXCEPT
                         !.orders_updated = TRUE,
                         !.new_order_ids = @ \cup {id},
                         !.log = Append(@, Call("limit_buy", id, HcPair.amount,
                                                price))]
          IN  /\ venue' = Append(venue, Order(id, "buy", "limit", price,
                                              HcPair.amount, "open"))
              /\ heap' = [heap EXCEPT
                           ![hc.copy[hc.i]] = BuyCanceledRung(HcPair, id, price)]
              /\ HcContinue(hc.i, "mid", order_pairs, heap', frame)
              /\ UNCHANGED used
    /\ UNCHANGED <<config, completed_trades, grid_size, feed, missed, main_pc,
                   wo_pc, ini, hf, serial, calc, ws_manager>>

\* whether list.remove(pair) finds an equal pair
HasPair(uids, objects, uid) == \E i \in 1..Len(uids) : objects[uids[i]] = objects[uid]

\* await fetch_order(pair.sell_order_id) returns
HcSellStatus ==
    /\ mh_pc = "hc_sell_status"
    /\ \/ /\ HcCanFail
          /\ UNCHANGED used
          /\ HcContinue(hc.i + 1, "top", order_pairs, heap, HcCaught)
          /\ UNCHANGED completed_trades
       \/ LET status == venue[HcPair.sell_order_id].status
              frame  == [hc EXCEPT !.log = Append(@, Call("fetch_order",
                                                 HcPair.sell_order_id, None, None))]
          IN  /\ UNCHANGED used
              /\ IF status = "closed"
                 THEN /\ completed_trades' = Append(completed_trades, hc.copy[hc.i])
                      /\ IF HasPair(order_pairs, heap, hc.copy[hc.i])
                         THEN /\ order_pairs' =
                                   RemovePair(order_pairs, heap, hc.copy[hc.i])
                              /\ mh_pc' = "hc_sell_closed"
                              /\ hc' = frame
                              /\ UNCHANGED snapshot
                         ELSE \* ValueError from list.remove, caught in the loop
                              HcContinue(hc.i + 1, "top", order_pairs, heap,
                                         [frame EXCEPT !.raised = @ + 1])
                 ELSE /\ UNCHANGED completed_trades
                      /\ IF status = "canceled"
                         THEN /\ mh_pc' = "hc_sell_canceled"
                              /\ hc' = frame
                              /\ UNCHANGED <<order_pairs, snapshot>>
                         ELSE HcContinue(hc.i + 1, "top", order_pairs, heap, frame)
    /\ UNCHANGED <<config, heap, grid_size, venue, feed, missed, main_pc, wo_pc,
                   ini, hf, serial, calc, ws_manager>>

\* sell found closed: await create_limit_buy_order(pair.amount, buy_price)
HcSellClosed ==
    /\ mh_pc = "hc_sell_closed"
    /\ \/ /\ HcCanFail
          /\ UNCHANGED used
          /\ HcContinue(hc.i + 1, "top", order_pairs, heap, HcCaught)
          /\ UNCHANGED <<heap, venue>>
       \/ LET id    == NextId
              price == SellClosedBuyPrice(HcPair, hc.price)
              pair  == OrderPair(id, None, price, None, "none", HcPair.amount,
                                 time_ms, "open")
              frame == [hc EXCEPT
                         !.orders_updated = TRUE,
                         !.new_order_ids = @ \cup {HcPair.buy_order_id},
                         !.log = Append(@, Call("limit_buy", id, HcPair.amount,
                                                price))]
          IN  /\ venue' = Append(venue, Order(id, "buy", "limit", price,
                                              HcPair.amount, "open"))
              /\ heap' = Append(heap, pair)
              /\ HcContinue(hc.i + 1, "top", Append(order_pairs, Len(heap) + 1),
                            heap', frame)
              /\ UNCHANGED used
    /\ UNCHANGED <<config, completed_trades, grid_size, feed, missed, main_pc,
                   wo_pc, ini, hf, serial, calc, ws_manager>>

\* sell found canceled: await create_limit_sell_order(pair.amount, new_sell_price)
HcSellCanceled ==
    /\ mh_pc = "hc_sell_canceled"
    /\ \/ /\ HcCanFail
          /\ UNCHANGED used
          /\ HcContinue(hc.i + 1, "top", order_pairs, heap, HcCaught)
          /\ UNCHANGED <<heap, venue>>
       \/ LET id    == NextId
              price == SellCanceledSellPrice(HcPair, hc.price)
              frame == [hc EXCEPT
                         !.orders_updated = TRUE,
                         !.new_order_ids = @ \cup {id},
                         !.log = Append(@, Call("limit_sell", id, HcPair.amount,
                                                price))]
          IN  /\ venue' = Append(venue, Order(id, "sell", "limit", price,
                                              HcPair.amount, "open"))
              /\ heap' = [heap EXCEPT ![hc.copy[hc.i]].sell_order_id = id,
                                      ![hc.copy[hc.i]].sell_price = price]
              /\ HcContinue(hc.i + 1, "top", order_pairs, heap', frame)
              /\ UNCHANGED used
    /\ UNCHANGED <<config, completed_trades, grid_size, feed, missed, main_pc,
                   wo_pc, ini, hf, serial, calc, ws_manager>>

\* trim: await cancel_order(excess_pair.buy_order_id) returns
HcTrimBuy ==
    /\ mh_pc = "hc_trim_buy"
    /\ \/ /\ CanFail
          /\ HcRaise
          /\ UNCHANGED <<venue, order_pairs, snapshot>>
       \/ LET excess == heap[hc.excess]
              frame  == [hc EXCEPT !.log = Append(@, Call("cancel_order",
                                                  excess.buy_order_id, None, None))]
          IN  /\ venue' = VenueCancelled(venue, excess.buy_order_id)
              /\ UNCHANGED used
              /\ IF excess.sell_order_id # None
                 THEN /\ mh_pc' = "hc_trim_sell"
                      /\ hc' = frame
                      /\ UNCHANGED <<order_pairs, snapshot>>
                 ELSE HcTrimStep(order_pairs, heap, frame)
    /\ UNCHANGED <<config, completed_trades, heap, grid_size, feed, missed,
                   main_pc, wo_pc, ini, hf, serial, calc, ws_manager>>

\* trim: await cancel_order(excess_pair.sell_order_id) returns
HcTrimSell ==
    /\ mh_pc = "hc_trim_sell"
    /\ \/ /\ CanFail
          /\ HcRaise
          /\ UNCHANGED <<venue, order_pairs, snapshot>>
       \/ LET excess == heap[hc.excess]
              frame  == [hc EXCEPT !.log = Append(@, Call("cancel_order",
                                                 excess.sell_order_id, None, None))]
          IN  /\ venue' = VenueCancelled(venue, excess.sell_order_id)
              /\ UNCHANGED used
              /\ HcTrimStep(order_pairs, heap, frame)
    /\ UNCHANGED <<config, completed_trades, heap, grid_size, feed, missed,
                   main_pc, wo_pc, ini, hf, serial, calc, ws_manager>>

HealthStep ==
    MhWake \/ HcOpen \/ HcTicker \/ HcBuyStatus \/ HcBuyClosed \/ HcBuyCanceled
    \/ HcSellStatus \/ HcSellClosed \/ HcSellCanceled \/ HcTrimBuy \/ HcTrimSell

Environment == VenueFill \/ VenueCancel \/ DiskFault \/ Restart

Next == InitStep \/ FillStep \/ HealthStep \/ Environment

Spec == Init /\ [][Next]_vars

SpecAsync == InitAsync /\ [][Next]_vars

SpecTrail == InitTrail /\ [][Next]_vars

\* the order stream reports an order a second time: an update of a closed
\* order that was already delivered arrives again
StreamRepeat ==
    /\ used < MaxEvents
    /\ wo_pc # "off"
    /\ \E id \in 1..Len(venue) :
         /\ venue[id].status = "closed"
         /\ id \notin SeqToSet(feed) \cup missed
         /\ feed' = Append(feed, id)
    /\ used' = used + 1
    /\ UNCHANGED <<config, order_pairs, completed_trades, heap, grid_size,
                   snapshot, venue, missed, main_pc, wo_pc, mh_pc, ini, hf, hc,
                   serial, calc, ws_manager>>

NextRepeat == Next \/ StreamRepeat

\* the engine on a stream that may repeat its updates
SpecRepeat == Init /\ [][NextRepeat]_vars

\* the calculations alone
SpecCalc == InitCalc /\ [][Calculate]_vars

---------------------------------------------------------------------------
(* websocket.py: WebSocketManager with the frontend enabled *)

\* the manager just constructed, keep_alive and process_messages started
InitNotify ==
    /\ config = [grids |-> 1, gridsize |-> 10, investment |-> 1200,
                 fresh_start |-> FALSE]
    /\ order_pairs = <<>>
    /\ completed_trades = <<>>
    /\ heap = <<>>
    /\ grid_size = 0
    /\ snapshot = NoFile
    /\ venue = <<>>
    /\ feed = <<>>
    /\ missed = {}
    /\ main_pc = "running"
    /\ wo_pc = "off"
    /\ mh_pc = "off"
    /\ ini = IniIdle
    /\ hf = HfIdle
    /\ hc = HcIdle
    /\ used = 0
    /\ serial = TRUE
    /\ calc = CalcIdle
    /\ ws_manager = [WsIdle EXCEPT !.pc = "wait"]

NotifyFrame ==
    UNCHANGED <<config, order_pairs, completed_trades, heap, grid_size, snapshot,
                venue, feed, missed, main_pc, wo_pc, mh_pc, ini, hf, hc, used,
                serial, calc>>

\* send_update: the message goes to the tail of the queue
SendUpdate ==
    /\ ws_manager.queued < MaxMessages
    /\ ws_manager' = [ws_manager EXCEPT
                        !.queued = @ + 1,
                        !.message_queue = Append(@, ws_manager.queued + 1)]
    /\ NotifyFrame

\* keep_alive: not connected, await self.connect() succeeds
KaConnect ==
    /\ ~ws_manager.connected
    /\ ws_manager' = [ws_manager EXCEPT !.connected = TRUE]
    /\ NotifyFrame

\* keep_alive: await self.ws.ping() raises ConnectionClosed
KaPingClosed ==
    /\ ws_manager.connected
    /\ ws_manager' = [ws_manager EXCEPT !.connected = FALSE]
    /\ NotifyFrame

\* process_messages after its sleep: connected and something is queued,
\* popleft, up to "await self.ws.send"
PmTake ==
    /\ ws_manager.pc = "wait"
    /\ ws_manager.connected
    /\ ws_manager.message_queue # <<>>
    /\ ws_manager' = [ws_manager EXCEPT
                        !.pc = "sending",
                        !.message = Head(ws_manager.message_queue),
                        !.message_queue = Tail(@)]
    /\ NotifyFrame

\* await self.ws.send(...) returns
PmSent ==
    /\ ws_manager.pc = "sending"
    /\ ws_manager' = [ws_manager EXCEPT
                        !.pc = "wait",
                        !.sent = Append(@, ws_manager.message),
                        !.message = None]
    /\ NotifyFrame

\* mutant: the message goes back to the tail
Requeue_AtTail(queue, message) == Append(queue, message)

\* "self.message_queue.appendleft(message)"
Requeue(queue, message) == <<message>> \o queue

\* await self.ws.send(...) raises an Exception: the message is put back
PmSendFailed ==
    /\ ws_manager.pc = "sending"
    /\ ws_manager' = [ws_manager EXCEPT
                        !.pc = "wait",
                        !.message_queue = Requeue(@, ws_manager.message),
                        !.message = None,
                        !.requeued = TRUE]
    /\ NotifyFrame

\* the task is cancelled (GridBot._cancel_tasks) at one of its awaits:
\* CancelledError is not an Exception, a message being sent is not put back
PmCancelled ==
    /\ ws_manager.pc \in {"wait", "sending"}
    /\ ws_manager' = [ws_manager EXCEPT !.pc = "cancelled"]
    /\ NotifyFrame

NextNotify ==
    SendUpdate \/ KaConnect \/ KaPingClosed \/ PmTake \/ PmSent \/ PmSendFailed
    \/ PmCancelled

SpecNotify == InitNotify /\ [][NextNotify]_vars

---------------------------------------------------------------------------
(* Claims *)

\* the calls of one kind in a log, as a set of log entries
Calls(log, kind) == {log[i] : i \in CallsOf(log, kind)}

\* handle_filled_order has returned normally for a fill of this side
HfHandled(side) == hf.result = "ok" /\ hf.trade.side = side

\* the index in hf.pre of the pair the fill matched (the first one)
HfMatchedIndex ==
    LET f   == IF hf.trade.side = "buy" THEN "buy_order_id" ELSE "sell_order_id"
        idx == {i \in 1..Len(hf.pre) : hf.pre[i][f] = hf.trade.order_id}
    IN  CHOOSE i \in idx : \A j \in idx : i <= j

HfMatchedPair == hf.pre[HfMatchedIndex]

\* the replacement rung a sell fill records for the buy order id
ReplacementRung(id) ==
    OrderPair(id, None, HfMatchedPair.buy_price, None, "none", hf.trade.amount,
              hf.trade.timestamp, "open")

\* what a matched sell fill always does: the rung is completed, one limit buy
\* of the rung's amount goes out at its buy price, the count is kept
C1_SellFillCore ==
    /\ Rungs(completed_trades) = Append(hf.pre_completed, HfMatchedPair)
    /\ Cardinality(CallsOf(hf.log, "limit_buy")) = 1
    /\ \A c \in Calls(hf.log, "limit_buy") :
         /\ c.amount = HfMatchedPair.amount
         /\ c.price = HfMatchedPair.buy_price
    /\ Len(order_pairs) = Len(hf.pre)

\* the replacement rung is among the active rungs
C1_ReplacementActive ==
    \E c \in Calls(hf.log, "limit_buy") :
        \E i \in 1..Len(order_pairs) : ActiveRungs[i] = ReplacementRung(c.id)

\* C1 as claimed (on a grid set up by a fresh start): a matched sell fill
\* completes the rung, places one limit buy of the same amount at the rung's
\* buy price and leaves it as a new active rung with buy status open, the
\* active count unchanged.
C1_Original ==
    (HfHandled("sell") /\ hf.matched /\ grid_size > 0)
        => (C1_SellFillCore /\ C1_ReplacementActive)

\* C1 amended: the same, but the replacement rung stays active only if
\* trail-up did not pick it: when the filled sell was the only sell leg and the
\* new rung has the lowest buy price, trail-up cancels the new buy and puts its
\* own rung (buy status closed, a sell leg) in that slot.
C1_SellFill ==
    (HfHandled("sell") /\ hf.matched) =>
        /\ C1_SellFillCore
        /\ \/ C1_ReplacementActive
           \/ /\ hf.trailed
              /\ \E c \in Calls(hf.log, "limit_buy") :
                    /\ hf.tu_pre[hf.lowest_index] = ReplacementRung(c.id)
                    /\ Calls(hf.log, "cancel_order") =
                         {Call("cancel_order", c.id, None, None)}
              /\ ActiveRungs[hf.lowest_index].buy_order_status = "closed"
              /\ ActiveRungs[hf.lowest_index].sell_order_id # None

C1_Witness ==
    HfHandled("sell") /\ hf.matched /\ C1_ReplacementActive /\ Len(hf.pre) > 1

\* C2: a buy fill of order X at price P, amount A places exactly one limit
\* sell of A at P + grid_size, and the rung with buy order id X (a rung made
\* from the trade when there is none) gets the sell id and price and buy
\* status closed; nothing else in the registry changes.
C2_BuyFill ==
    HfHandled("buy") =>
        /\ Cardinality(CallsOf(hf.log, "limit_sell")) = 1
        /\ \A c \in Calls(hf.log, "limit_sell") :
             /\ c.amount = hf.trade.amount
             /\ c.price = hf.trade.price + grid_size
             /\ venue[c.id].side = "sell" /\ venue[c.id].type = "limit"
             /\ IF hf.matched
                THEN ActiveRungs =
                       [hf.pre EXCEPT ![HfMatchedIndex] =
                          [@ EXCEPT !.sell_order_id = c.id, !.sell_price = c.price,
                                    !.buy_order_status = "closed"]]
                ELSE ActiveRungs =
                       Append(hf.pre,
                              OrderPair(hf.trade.order_id, c.id, hf.trade.price,
                                        c.price, "none", hf.trade.amount,
                                        hf.trade.timestamp, "closed"))
        /\ Rungs(completed_trades) = hf.pre_completed

C2_Witness == HfHandled("buy") /\ hf.matched /\ grid_size > 0

\* C3: after a fresh-start initialization with grids = N the active list
\* holds N rungs: first the market rung (buy closed, sell leg attached), then
\* N - 1 rungs with an open limit buy and no sell leg; nothing is completed.
C3_FreshGrid ==
    (ini.result = "ok" /\ ini.fresh) =>
        /\ Len(order_pairs) = config.grids
        /\ completed_trades = <<>>
        /\ \A i \in 1..Len(order_pairs) :
             LET r == ActiveRungs[i]
             IN  IF i = 1
                 THEN /\ r.buy_type = "market" /\ r.buy_order_status = "closed"
                      /\ r.buy_order_id # None /\ r.sell_order_id # None
                 ELSE /\ r.buy_type = "limit" /\ r.buy_order_status = "open"
                      /\ r.buy_order_id # None /\ r.sell_order_id = None

C3_Witness == ini.result = "ok" /\ ini.fresh /\ Len(order_pairs) > 1

C5_Serialized == WoIdle \/ MhIdle

\* C6: after a health-check pass in which nothing raised, every active rung
\* whose limit buy had filled before the pass, the fill never delivered, has
\* a sell leg.
C6_MissedFillRepaired ==
    (hc.result = "ok" /\ hc.raised = 0) =>
        \A i \in 1..Len(order_pairs) :
            LET r == ActiveRungs[i]
            IN  (/\ r.buy_order_id \in hc.closed_before \cap missed
                 /\ venue[r.buy_order_id].type = "limit")
                => r.sell_order_id # None

\* C7: a gateway error while handling a sell fill, or while repairing a closed
\* sell leg in the health check, does not reduce the number of active rungs.
C7_NoRungLost ==
    /\ (hf.result = "error" /\ hf.trade.side = "sell")
          => Len(order_pairs) >= Len(hf.pre)
    /\ (hc.result = "ok" /\ ~Excess(hc.pre))
          => Len(order_pairs) >= Len(hc.pre)

\* C8: loading what was saved gives back the rungs that were saved.
C8_RoundTrip ==
    order_pairs # <<>> => LoadPairs(SavePairs(ActiveRungs)) = ActiveRungs

\* the pairs of a list that hold a sell order
WithSell(rungs) == {i \in 1..Len(rungs) : rungs[i].sell_order_id # None}

TrailingUp == wo_pc \in {"tu_ticker", "tu_cancel", "tu_market_buy", "tu_sell"}

\* C9: while trail-up runs no active rung holds a sell leg; a sell fill whose
\* handling returned triggered trail-up exactly when the filled order was the
\* only sell leg among the active rungs.
C9_TrailUpTrigger ==
    /\ TrailingUp => WithSell(ActiveRungs) = {}
    /\ (HfHandled("sell") /\ hf.matched) =>
          (hf.trailed <=> WithSell(hf.pre) = {HfMatchedIndex})
    /\ (HfHandled("sell") /\ ~hf.matched) => ~hf.trailed
    /\ HfHandled("buy") => ~hf.trailed

C9_Witness == HfHandled("sell") /\ hf.trailed /\ Len(order_pairs) > 1

\* C10: trail-up picks an active rung with the lowest buy price, cancels its
\* buy, places one market buy of quote_per_trade / price and one limit sell at
\* price + grid_size, and puts a rung with these two legs (buy closed) in the
\* picked rung's slot; the other rungs and the count are as before.
C10_TrailUp ==
    (hf.result = "ok" /\ hf.trailed) =>
        LET k == hf.lowest_index
        IN  /\ k \in 1..Len(hf.tu_pre)
            /\ \A j \in 1..Len(hf.tu_pre) :
                 hf.tu_pre[k].buy_price <= hf.tu_pre[j].buy_price
            /\ Calls(hf.log, "cancel_order") =
                 {Call("cancel_order", hf.tu_pre[k].buy_order_id, None, None)}
            /\ Cardinality(CallsOf(hf.log, "market_buy")) = 1
            /\ Cardinality(CallsOf(hf.log, "limit_sell")) = 1
            /\ \E t \in Calls(hf.log, "fetch_ticker"),
                  b \in Calls(hf.log, "market_buy"),
                  c \in Calls(hf.log, "limit_sell") :
                 /\ b.amount = DecimalDivide(quote_per_trade, DecimalOf(t.price))
                 /\ c.amount = b.amount
                 /\ c.price = t.price + grid_size
                 /\ ActiveRungs[k].buy_order_id = b.id
                 /\ ActiveRungs[k].sell_order_id = c.id
                 /\ ActiveRungs[k].sell_price = c.price
                 /\ ActiveRungs[k].amount = b.amount
                 /\ ActiveRungs[k].buy_order_status = "closed"
            /\ Len(order_pairs) = Len(hf.tu_pre)
            /\ \A j \in 1..Len(hf.tu_pre) :
                 j # k => /\ order_pairs[j] = hf.tu_uids[j]
                          /\ ActiveRungs[j] = hf.tu_pre[j]

C10_Witness == hf.result = "ok" /\ hf.trailed /\ Len(order_pairs) > 1

\* C11: after initialize_grid has returned, in either mode, grid_size is
\* positive, and it is the grid size of the price the initialization fetched.
C11_GridSizeSet ==
    ini.result = "ok" =>
        /\ grid_size > 0
        /\ ini.price # None => grid_size = calculate_grid_size(ini.price)

\* C12: while the process runs after its initialization, no step of fill
\* handling, trail-up or the health check changes grid_size.
C12_GridSizeHeld ==
    [][(main_pc = "running" /\ main_pc' = "running") => grid_size' = grid_size]_vars

\* a health-check pass has returned after fetching a price other than the one
\* the grid size was computed from
C12_Witness ==
    /\ hc.result = "ok"
    /\ grid_size > 0
    /\ grid_size # calculate_grid_size(hc.price)

\* price * percent / 100 with no rounding
ExactGridSize(current_price, gridsize) ==
    LET e == ExactProduct(current_price, gridsize)
    IN  Decimal(e.neg, e.digits, e.exp - 2)

\* the product of the price and the percentage fits the precision
ProductFits(current_price, gridsize) ==
    Len(ExactProduct(current_price, gridsize).digits) <= DecimalPrec

\* C13 as stated: for every positive price and percentage calculate_grid_size
\* returns exactly price * percent / 100, unrounded, and changes nothing of
\* the strategy
C13_Original ==
    calc.done /\ calc.reference # None =>
        /\ calc.grid_size = ExactGridSize(calc.price, calc.gridsize)
        /\ order_pairs = <<>> /\ completed_trades = <<>> /\ grid_size = 0

\* C13: calculate_grid_size changes nothing of the strategy and returns
\* price * percent / 100 exactly when the product has at most 28 significant
\* digits; a longer product is first rounded half-even to 28 digits
C13_GridSize ==
    calc.done /\ calc.reference # None =>
        LET e == ExactProduct(calc.price, calc.gridsize)
            r == RoundHalfEven(e.digits, e.exp - 2, FALSE)
        IN  /\ DecimalPositive(calc.grid_size)
            /\ ProductFits(calc.price, calc.gridsize) =>
                  calc.grid_size = ExactGridSize(calc.price, calc.gridsize)
            /\ ~ProductFits(calc.price, calc.gridsize) =>
                  calc.grid_size = Decimal(FALSE, r.digits, r.exp)
            /\ order_pairs = <<>> /\ completed_trades = <<>> /\ grid_size = 0

\* a product of more than 28 digits has been calculated
C13_Witness ==
    /\ calc.done /\ calc.reference # None
    /\ ~ProductFits(calc.price, calc.gridsize)
    /\ calc.grid_size # ExactGridSize(calc.price, calc.gridsize)

\* C14: in a fresh start, when the market buy goes out the active and the
\* completed lists are empty, every order that fetch_open_orders reported has
\* had its cancel_order call before it, and no order is open on the venue
C14_FreshStartClears ==
    main_pc \in {"in_market_buy", "in_sell"} =>
        /\ order_pairs = <<>>
        /\ completed_trades = <<>>
        /\ \A id \in ini.found_open :
             Call("cancel_order", id, None, None) \in Calls(ini.log, "cancel_order")
        /\ CallsOf(ini.log, "cancel_order") # {} /\ main_pc = "in_sell" =>
             \A c \in CallsOf(ini.log, "cancel_order") :
                \A b \in CallsOf(ini.log, "market_buy") : c < b
        /\ \A id \in 1..Len(venue) : venue[id].status # "open"

\* the market buy of a fresh start has gone out where rungs had been loaded
\* from the snapshot and an order of theirs was open on the venue
C14_Witness ==
    /\ main_pc = "in_sell"
    /\ ini.found_open # {}
    /\ LoadPairs(snapshot) # <<>>
    /\ CallsOf(ini.log, "market_buy") # {}

\* the orders a log places, in order, without their ids
IsOrderCall(c) == c.call \in {"market_buy", "limit_sell", "limit_buy"}

OrdersPlaced(log) ==
    LET placed == SelectSeq(log, IsOrderCall)
    IN  [i \in 1..Len(placed) |-> [placed[i] EXCEPT !.id = None]]

\* the orders of a fresh grid at reference price R with increment g, the
\* limit buy at a price sized by BuyAmount
FreshOrders(R, g, BuyAmount(_)) ==
    LET amount == DecimalDivide(quote_per_trade, DecimalOf(R))
    IN  <<Call("market_buy", None, amount, None),
          Call("limit_sell", None, amount, R + g)>>
        \o [i \in 1..(config.grids - 1) |->
               Call("limit_buy", None, BuyAmount(R - i * g), R - i * g)]

QuotientAmount(price) == DecimalDivide(quote_per_trade, DecimalOf(price))

ReciprocalAmount(price) ==
    DecimalMultiply(quote_per_trade, DecimalDivide(DecimalOf(1), DecimalOf(price)))

\* C15 as stated: a fresh start places one market buy of
\* investmentPerTrade / R, one limit sell of that amount at R + g, and for
\* i = 1..N-1 one limit buy at R - i*g of investmentPerTrade / (R - i*g),
\* in that order and nothing else
C15_Original ==
    ini.result = "ok" /\ ini.fresh =>
        OrdersPlaced(ini.log)
            = FreshOrders(ini.price, calculate_grid_size(ini.price), QuotientAmount)

\* C15: the same orders in the same order, each limit buy sized
\* investmentPerTrade * (1 / (R - i*g)) with the reciprocal rounded to the
\* 28 digits of the decimal context before the multiplication
C15_FreshOrders ==
    ini.result = "ok" /\ ini.fresh =>
        OrdersPlaced(ini.log)
            = FreshOrders(ini.price, calculate_grid_size(ini.price), ReciprocalAmount)

\* a fresh grid is up whose limit buy is not sized by the quotient
C15_Witness ==
    /\ ini.result = "ok" /\ ini.fresh
    /\ Len(OrdersPlaced(ini.log)) = 3
    /\ OrdersPlaced(ini.log)[3].amount # QuotientAmount(OrdersPlaced(ini.log)[3].price)

\* the documented scenario has been calculated: 10 grids, investment 1000,
\* 1 percent, reference price 45000
ScenarioDone ==
    /\ calc.done
    /\ config.grids = 10 /\ config.investment = 1000 /\ config.gridsize = 1
    /\ calc.reference = 45000

\* C16 as stated: in the scenario the market buy is for 1000/45000 and the
\* nine limit buys are at 45000 - 450*i
C16_Original ==
    ScenarioDone =>
        /\ calc.amount = DecimalDivide(DecimalOf(1000), DecimalOf(45000))
        /\ calc.buy_prices = [i \in 1..9 |-> 45000 - 450 * i]

\* C16: in the scenario the market buy is for (1000/10)/45000, the
\* investment per trade over the price, and the nine limit buys are at
\* 45000 - 450*i
C16_Scenario ==
    ScenarioDone =>
        /\ calc.amount = DecimalDivide(DecimalOf(100), DecimalOf(45000))
        /\ calc.buy_prices = [i \in 1..9 |-> 45000 - 450 * i]

C16_Witness == ScenarioDone /\ Len(calc.buy_prices) = 9

\* initialize_grid has returned in resume mode
Resumed == ini.result = "ok" /\ ~ini.fresh

\* C17: a resume-mode initialization makes no gateway call, so it places and
\* cancels nothing, and leaves as active rungs the rungs the snapshot file
\* records, in the file's order, or none when there is no file
C17_Resume ==
    Resumed =>
        /\ ini.log = <<>>
        /\ completed_trades = <<>>
        /\ IF snapshot.exists
           THEN [i \in 1..Len(order_pairs) |-> ToDict(ActiveRungs[i])] = snapshot.pairs
           ELSE order_pairs = <<>>

\* a resume-mode initialization has loaded the rungs of a snapshot
C17_Witness == Resumed /\ snapshot.exists /\ order_pairs # <<>>

\* C18: when a gateway call of initialize_grid has raised, one error
\* notification has been sent, the exception has left initialize_grid and
\* run(), and none of the tasks has been started
C18_InitFailure ==
    ini.result = "error" /\ ini.log # <<>> =>
        /\ Cardinality(CallsOf(ini.log, "send_error")) = 1
        /\ main_pc = "stopped"
        /\ wo_pc = "off" /\ mh_pc = "off"

\* C19: when a gateway call of handle_filled_order has raised, one error
\* notification has been sent and the watch loop is in its delay or watching
\* again
C19_FillFailure ==
    hf.result = "error" =>
        /\ Cardinality(CallsOf(hf.log, "send_error")) = 1
        /\ wo_pc \in {"wo_sleep", "watch"}

\* C20: a snapshot write that fails in handle_filled_order or in
\* check_order_health does not abort the operation, which returns normally
C20_SaveFailure ==
    /\ CallsOf(hf.log, "save_error") # {} => hf.result = "ok"
    /\ CallsOf(hc.log, "save_error") # {} => hc.result = "ok"

\* the rungs that are active before and after a step
StaysActive == {uid \in SeqToSet(order_pairs) \cap SeqToSet(order_pairs') :
                  uid <= Len(heap')}

\* C21: every step leaves each active rung with a buy or a sell order id, and
\* a rung that stays active keeps its amount
C21_RungInvariant ==
    [][/\ \A i \in 1..Len(order_pairs') :
            \/ heap'[order_pairs'[i]].buy_order_id # None
            \/ heap'[order_pairs'[i]].sell_order_id # None
       /\ \A uid \in StaysActive : heap'[uid].amount = heap[uid].amount]_vars

\* a health-check pass has placed a rung's cancelled buy again, the rung
\* staying in the list
C21_Witness ==
    /\ hc.result = "ok"
    /\ \E i \in 1..Len(hc.pre) : \E j \in 1..Len(order_pairs) :
          /\ hc.pre[i].buy_order_id # ActiveRungs[j].buy_order_id
          /\ hc.pre[i].timestamp = ActiveRungs[j].timestamp
          /\ [hc.pre[i] EXCEPT !.buy_order_id = ActiveRungs[j].buy_order_id,
                               !.buy_price = ActiveRungs[j].buy_price]
               = ActiveRungs[j]

\* the snapshot file records the active rungs as they are
SnapshotCurrent ==
    /\ snapshot.exists
    /\ snapshot.pairs = [i \in 1..Len(order_pairs) |-> ToDict(ActiveRungs[i])]

\* C22: when a fresh initialization, a fill handling (trail-up included) or a
\* health-check pass (trimming included) in which no gateway call raised has
\* changed the active rungs and returned normally, the snapshot file records
\* the active rungs
C22_SnapshotCurrent ==
    /\ (ini.result = "ok" /\ ini.fresh) => SnapshotCurrent
    /\ (hf.result = "ok" /\ ActiveRungs # hf.pre) => SnapshotCurrent
    /\ (hc.result = "ok" /\ hc.raised = 0 /\ ActiveRungs # hc.pre)
          => SnapshotCurrent

\* the messages send_update has queued, in order
Accepted == [i \in 1..ws_manager.queued |-> i]

\* the message popped and not sent
InFlight ==
    IF ws_manager.message # None THEN <<ws_manager.message>> ELSE <<>>

\* C23 as stated: a message leaves the queue only once its send has
\* succeeded, so the messages sent followed by the queue are the messages
\* queued, in order
C23_Original ==
    ws_manager.sent \o ws_manager.message_queue = Accepted

\* C23: process_messages pops the head message only when connected, before
\* the send; a failed send puts it back at the head. The messages sent, the
\* one popped and the queue are, in this order, the messages queued: none is
\* duplicated or reordered, and none is lost but the one being sent when the
\* task is cancelled
C23_Queue ==
    [][/\ (ws_manager.sent \o InFlight \o ws_manager.message_queue = Accepted)'
       /\ ws_manager'.message # None
            => ws_manager'.pc \in {"sending", "cancelled"}
       /\ (ws_manager.pc = "wait" /\ ws_manager'.pc = "sending")
            => ws_manager.connected]_vars

\* a failed send has put a message back, a message has been sent and one
\* is waiting
C23_Witness ==
    /\ ws_manager.requeued
    /\ ws_manager.sent # <<>>
    /\ ws_manager.message_queue # <<>>
    /\ ws_manager.pc = "wait"

\* a health-check pass has returned and none of its gateway calls raised
HcClean == hc.result = "ok" /\ hc.raised = 0

\* the rungs, as the pass found them, whose open limit buy was not among the
\* open orders and is closed / cancelled on the venue
BuyGone(status) ==
    {i \in 1..Len(hc.pre) :
        /\ NeedsBuyCheck(hc.pre[i], hc.open_order_ids)
        /\ venue[hc.pre[i].buy_order_id].status = status}

\* the rungs whose sell order was not among the open orders and is closed /
\* cancelled on the venue
SellGone(status) ==
    {i \in 1..Len(hc.pre) :
        /\ NeedsSellCheck(hc.pre[i], hc.open_order_ids)
        /\ venue[hc.pre[i].sell_order_id].status = status}

\* the calls of a kind a pass made with this amount and price
HcCalls(kind, amount, price) ==
    {c \in Calls(hc.log, kind) : c.amount = amount /\ c.price = price}

\* the rungs the trim of the pass removed
Trimmed(rungs) == Len(rungs) > config.grids

C25_BuyCanceled ==
    (HcClean /\ ~Trimmed(hc.pre)) =>
        /\ \A i \in BuyGone("canceled") :
             LET r     == hc.pre[i]
                 price == Min(hc.price, r.buy_price)
             IN  \E c \in HcCalls("limit_buy", r.amount, price) :
                    /\ \E j \in 1..Len(order_pairs) :
                         ActiveRungs[j] = [r EXCEPT !.buy_order_id = c.id,
                                                    !.buy_price = price]
                    /\ venue[c.id].side = "buy" /\ venue[c.id].type = "limit"
                    /\ venue[c.id].price <= r.buy_price
        /\ Cardinality(CallsOf(hc.log, "limit_buy"))
             = Cardinality(BuyGone("canceled")) + Cardinality(SellGone("closed"))
        /\ Len(order_pairs) = Len(hc.pre)

\* a pass has placed again a cancelled buy while the market was below the
\* rung's buy price
C25_Witness ==
    /\ HcClean /\ ~Trimmed(hc.pre)
    /\ \E i \in BuyGone("canceled") : hc.price < hc.pre[i].buy_price

\* the rungs of a sequence, as a set
RungSet(rungs) == {rungs[i] : i \in 1..Len(rungs)}

\* C26: after a health-check pass without errors, each rung found with its
\* sell missing from the open orders and closed on the venue is in the
\* completed ledger and no longer active, and one limit buy of the rung's
\* amount was placed at min(current price, sell price) - grid size and is held
\* by a new active rung with buy status open; the ledger grew by exactly these
\* rungs, the pass placed no other buy than these and those of the cancelled
\* buys, and the number of active rungs is what it was
C26_SellClosed ==
    (HcClean /\ ~Trimmed(hc.pre)) =>
        /\ \A i \in SellGone("closed") :
             LET r     == hc.pre[i]
                 price == Min(hc.price, r.sell_price) - grid_size
             IN  /\ r \in RungSet(Rungs(completed_trades))
                 /\ r \notin RungSet(ActiveRungs)
                 /\ \E c \in HcCalls("limit_buy", r.amount, price) :
                       /\ OrderPair(c.id, None, price, None, "none", r.amount,
                                    time_ms, "open") \in RungSet(ActiveRungs)
                       /\ venue[c.id].side = "buy" /\ venue[c.id].type = "limit"
                       /\ venue[c.id].amount = r.amount
        /\ Len(completed_trades)
             = Len(hc.pre_completed) + Cardinality(SellGone("closed"))
        /\ Cardinality(CallsOf(hc.log, "limit_buy"))
             = Cardinality(BuyGone("canceled")) + Cardinality(SellGone("closed"))
        /\ Len(order_pairs) = Len(hc.pre)

\* a pass has replaced a rung whose sell had closed unseen, while the market
\* was below the rung's sell price
C26_Witness ==
    /\ HcClean /\ ~Trimmed(hc.pre)
    /\ \E i \in SellGone("closed") : hc.price < hc.pre[i].sell_price

\* C27: after a health-check pass without errors, for each rung found with
\* its sell missing from the open orders and cancelled on the venue, one limit
\* sell of the rung's amount was placed at max(current price, sell price),
\* never below the old sell price, and the same rung holds that order's id
\* and price and is otherwise unchanged; the pass placed no other sell than
\* these and those of the buys found closed
C27_SellCanceled ==
    (HcClean /\ ~Trimmed(hc.pre)) =>
        /\ \A i \in SellGone("canceled") :
             LET r     == hc.pre[i]
                 price == Max(hc.price, r.sell_price)
             IN  \E c \in HcCalls("limit_sell", r.amount, price) :
                    /\ [r EXCEPT !.sell_order_id = c.id, !.sell_price = price]
                          \in RungSet(ActiveRungs)
                    /\ r \notin RungSet(ActiveRungs)
                    /\ venue[c.id].side = "sell" /\ venue[c.id].type = "limit"
                    /\ venue[c.id].price >= r.sell_price
        /\ Cardinality(CallsOf(hc.log, "limit_sell"))
             = Cardinality(SellGone("canceled")) + Cardinality(BuyGone("closed"))
        /\ Len(completed_trades)
             = Len(hc.pre_completed) + Cardinality(SellGone("closed"))

\* a pass has placed again a cancelled sell while the market was above the
\* rung's sell price
C27_Witness ==
    /\ HcClean /\ ~Trimmed(hc.pre)
    /\ \E i \in SellGone("canceled") : hc.price > hc.pre[i].sell_price

\* the orders a pass placed on a side
HcPlaced(kind) == Calls(hc.log, kind)

\* the rung is still active exactly as the pass found it: its missing leg is
\* still recorded, so the next pass tests and repairs it again
Untouched(r) == r \in RungSet(ActiveRungs)

\* the four repairs, as done for a rung the pass found in need of them
BuyClosedRepaired(r) ==
    \E c \in HcPlaced("limit_sell") :
        [r EXCEPT !.sell_order_id = c.id, !.sell_price = c.price,
                  !.buy_order_status = "closed"] \in RungSet(ActiveRungs)

BuyCanceledRepaired(r) ==
    \E c \in HcPlaced("limit_buy") :
        [r EXCEPT !.buy_order_id = c.id, !.buy_price = c.price]
            \in RungSet(ActiveRungs)

SellClosedRepaired(r) ==
    /\ r \in RungSet(Rungs(completed_trades))
    /\ \E c \in HcPlaced("limit_buy") :
          OrderPair(c.id, None, c.price, None, "none", r.amount, time_ms, "open")
              \in RungSet(ActiveRungs)

SellCanceledRepaired(r) ==
    \E c \in HcPlaced("limit_sell") :
        [r EXCEPT !.sell_order_id = c.id, !.sell_price = c.price]
            \in RungSet(ActiveRungs)

\* C28: when a health-check pass returns, every rung it found in need of a
\* repair has either been repaired or is still active as it was found, so
\* that the next pass finds it in need of the same repair
C28_RetriedNextPass ==
    (hc.result = "ok" /\ ~Trimmed(hc.pre)) =>
        /\ \A i \in BuyGone("closed") :
              BuyClosedRepaired(hc.pre[i]) \/ Untouched(hc.pre[i])
        /\ \A i \in BuyGone("canceled") :
              BuyCanceledRepaired(hc.pre[i]) \/ Untouched(hc.pre[i])
        /\ \A i \in SellGone("closed") :
              SellClosedRepaired(hc.pre[i]) \/ Untouched(hc.pre[i])
        /\ \A i \in SellGone("canceled") :
              SellCanceledRepaired(hc.pre[i]) \/ Untouched(hc.pre[i])

\* the rungs a pass found in need of a repair and did not repair
Unrepaired ==
    {i \in BuyGone("closed") : ~BuyClosedRepaired(hc.pre[i])}
    \cup {i \in BuyGone("canceled") : ~BuyCanceledRepaired(hc.pre[i])}
    \cup {i \in SellGone("closed") : ~SellClosedRepaired(hc.pre[i])}
    \cup {i \in SellGone("canceled") : ~SellCanceledRepaired(hc.pre[i])}

\* the rungs a pass found in need of a repair
Broken ==
    BuyGone("closed") \cup BuyGone("canceled") \cup SellGone("closed")
    \cup SellGone("canceled")

\* C29: a gateway call that raises for one rung does not end the pass, and
\* costs no other rung its repair: when the pass returns, the rungs it found
\* in need of a repair and left unrepaired are no more than the calls that
\* raised
C29_ErrorIsolated ==
    /\ [][hc'.raised > hc.raised =>
            \/ hc'.result \in {"running", "ok"}
            \/ hc'.log # <<>> /\ hc'.log[Len(hc'.log)] = SaveError]_vars
    /\ []((hc.result = "ok" /\ ~Trimmed(hc.pre)) =>
            Cardinality(Unrepaired) <= hc.raised)

\* a pass has returned after a call raised for one rung, and has repaired a
\* rung that comes after it in the list
C29_Witness ==
    /\ hc.result = "ok" /\ hc.raised > 0 /\ ~Trimmed(hc.pre)
    /\ \E i \in Unrepaired : \E j \in Broken \ Unrepaired : i < j

\* no order of the rung is open on the venue
NoLegOpen(r) ==
    /\ r.buy_order_id # None => venue[r.buy_order_id].status # "open"
    /\ r.sell_order_id # None => venue[r.sell_order_id].status # "open"

\* C30: when the scan of a health-check pass ended with more active rungs
\* than grids (hc.scanned), once the pass is over every rung it has removed,
\* the last of the list first, has no order open on the venue, and after a
\* pass that returned the active rungs are the first config.grids of them
C30_TrimCancels ==
    (hc.result \in {"ok", "error"} /\ Len(hc.scanned) > config.grids) =>
        /\ ActiveRungs = SubSeq(hc.scanned, 1, Len(order_pairs))
        /\ \A k \in Len(order_pairs) + 1..Len(hc.scanned) :
              NoLegOpen(hc.scanned[k])
        /\ hc.result = "ok" => Len(order_pairs) = config.grids

\* the pass placed no order, cancelled none, left the active rungs and the
\* completed ledger as they were and did not write the snapshot
HcIdlePass ==
    /\ \A i \in 1..Len(hc.log) :
          hc.log[i].call \in {"fetch_open_orders", "fetch_ticker", "fetch_order"}
    /\ ActiveRungs = hc.pre
    /\ Rungs(completed_trades) = hc.pre_completed

\* C31 as stated: a pass that finds no rung in need of a repair changes
\* nothing
C31_Original == (hc.result = "ok" /\ Broken = {}) => HcIdlePass

\* C31: a health-check pass that finds no rung in need of a repair and no
\* more active rungs than grids places no order, cancels none, leaves the
\* active rungs and the completed ledger unchanged and does not write the
\* snapshot
C31_NothingToRepair ==
    (hc.result = "ok" /\ Broken = {} /\ ~Trimmed(hc.pre)) => HcIdlePass

\* a pass over a grid with all its orders open has returned
C31_Witness ==
    /\ hc.result = "ok" /\ Broken = {} /\ ~Trimmed(hc.pre)
    /\ Len(hc.pre) = MaxGrids
    /\ \E i \in 1..Len(hc.pre) : hc.pre[i].sell_order_id \in hc.open_order_ids

\* C32: a health-check pass without errors that has moved a rung to the
\* completed ledger, its sell found closed, does not end with active rungs
\* of which none holds a sell order
C32_SellLegRemains ==
    (HcClean /\ SellGone("closed") # {} /\ ActiveRungs # <<>>) =>
        \E i \in 1..Len(order_pairs) : ActiveRungs[i].sell_order_id # None

\* the places in a log of the orders placed
Placements(log) ==
    {i \in 1..Len(log) :
        log[i].call \in {"market_buy", "limit_buy", "limit_sell"}}

\* the log ends with a snapshot write followed by one status notification
\* that reports these counts of active and completed rungs
EndsWithStatus(log, active, completed) ==
    /\ Len(log) >= 2
    /\ log[Len(log) - 1].call = "save"
    /\ log[Len(log)].call = "send_grid_status"
    /\ log[Len(log)].id = active
    /\ log[Len(log)].price = completed

\* C33: when handle_filled_order has returned normally, the first thing it
\* did was to send the trade notification, and the last two were to write
\* the snapshot and to send the one status notification, whose counts are
\* those of the active and of the completed rungs
C33_FillNotifications ==
    hf.result = "ok" =>
        /\ hf.log # <<>> /\ hf.log[1].call = "send_trade"
        /\ EndsWithStatus(hf.log, Len(order_pairs), Len(completed_trades))
        /\ Cardinality(CallsOf(hf.log, "send_grid_status")) = 1

\* C34: when a fresh-start initialization has returned normally, a status
\* notification reporting 0 active rungs was sent before the first order was
\* placed, and the last two things done were to write the snapshot and to
\* send the status notification with the final counts
C34_InitNotifications ==
    (ini.result = "ok" /\ ini.fresh) =>
        /\ \E k \in CallsOf(ini.log, "send_grid_status") :
              /\ ini.log[k].id = 0
              /\ \A i \in Placements(ini.log) : k < i
        /\ EndsWithStatus(ini.log, Len(order_pairs), Len(completed_trades))

\* no engine operation is in progress
Quiescent == main_pc = "running" /\ WoIdle /\ MhIdle

\* an order placed by hand before the first start, not by the engine
PlacedByHand(id) ==
    /\ id <= MaxPreexisting
    /\ venue[id].type = "limit" /\ venue[id].side = "buy"
    /\ venue[id].amount = DecimalOf(1)

\* the active rungs that hold the order as their buy or their sell
Holders(id) ==
    {i \in 1..Len(order_pairs) :
        ActiveRungs[i].buy_order_id = id \/ ActiveRungs[i].sell_order_id = id}

\* C35: whenever no engine operation is in progress, every order the engine
\* has placed that is open on the venue is the buy or the sell of exactly one
\* active rung
C35_NoUntrackedOrder ==
    Quiescent =>
        \A id \in OpenOrderIds :
            ~PlacedByHand(id) => Cardinality(Holders(id)) = 1

\* C36: no rung is in the completed ledger twice
C36_CompletedOnce ==
    \A i, j \in 1..Len(completed_trades) :
        i # j => completed_trades[i] # completed_trades[j]

\* C37: the step in which a trail-up, its sell order placed, comes to its end
\* takes out of the active rungs the rung whose buy the trail-up cancelled and
\* no other, and puts the new rung in that rung's place
C37_TrailUpReplaces ==
    [][(wo_pc = "tu_sell" /\ wo_pc' # "tu_sell" /\ Len(venue') > Len(venue)) =>
          /\ hf.lowest \notin SeqToSet(order_pairs')
          /\ \A uid \in SeqToSet(order_pairs) :
                uid # hf.lowest => uid \in SeqToSet(order_pairs')
          /\ \E k \in 1..Len(order_pairs) :
                /\ order_pairs[k] = hf.lowest
                /\ order_pairs'[k] = Len(heap')]_vars

\* the order a run of handle_filled_order is for
HfOrder == venue[hf.trade.order_id]

\* the market buys the engine placed, by their ids
MarketBuys == {id \in 1..Len(venue) : venue[id].type = "market"}

\* the rungs bought at market that hold a sell order
MarketRungs ==
    {uid \in 1..Len(heap) :
        /\ heap[uid].buy_order_id \in MarketBuys
        /\ heap[uid].sell_order_id # None}

\* C38: handle_filled_order is only ever entered for an order that is closed
\* and of type limit (a closed market order that the order stream reports is
\* dropped by the watch loop), and no step of fill handling gives a rung
\* bought at market another sell order
C38_OnlyLimitFills ==
    /\ [](hf.result # "none" =>
            HfOrder.status = "closed" /\ HfOrder.type = "limit")
    /\ [][hf' # hf =>
            \A uid \in MarketRungs :
                uid <= Len(heap') =>
                    heap'[uid].sell_order_id = heap[uid].sell_order_id]_vars

\* the closed market buy of a trail-up has come through the order stream and
\* the watch loop is waiting for the next order
C38_Witness ==
    /\ hf.result = "ok" /\ hf.trailed
    /\ hf.buy_order \in MarketBuys
    /\ hf.buy_order \notin SeqToSet(feed)
    /\ wo_pc = "watch" /\ main_pc = "running"
    /\ \E i \in 1..Len(order_pairs) : ActiveRungs[i].buy_order_id = hf.buy_order

\* the active rungs on entry to the fill handler that hold the trade's order
\* id as their sell order id
HfSellRungs == {i \in 1..Len(hf.pre) : hf.pre[i].sell_order_id = hf.trade.order_id}

\* C39: a sell fill that is delivered a second time, or whose order id is the
\* sell order id of no active rung, places no order, cancels no order and
\* leaves the active rungs and the completed ledger as they were.
C39_SellFillIdempotent ==
    (HfHandled("sell") /\ HfSellRungs = {}) =>
        /\ Placements(hf.log) = {}
        /\ CallsOf(hf.log, "cancel_order") = {}
        /\ ActiveRungs = hf.pre
        /\ Rungs(completed_trades) = hf.pre_completed

\* the second delivery of a sell fill whose first delivery completed the rung
\* and trailed the grid up
C39_Witness ==
    /\ HfHandled("sell") /\ HfSellRungs = {}
    /\ \E i \in 1..Len(hf.pre_completed) :
          hf.pre_completed[i].sell_order_id = hf.trade.order_id
    /\ Cardinality(MarketBuys) > 1
    /\ Len(hf.pre) > 0

\* BotConfig's validators: investment > 0, grids > 0, gridsize > 0
BotConfigAccepts(c) == c.investment > 0 /\ c.grids > 0 /\ c.gridsize > 0

\* C40: for every configuration BotConfig accepts and every reference price
\* above zero, each limit buy of a fresh-start initialization has a price above
\* zero and an amount above zero.
C40_PositiveBuys ==
    (calc.done /\ calc.reference # None /\ BotConfigAccepts(config)
     /\ calc.reference > 0) =>
        \A i \in 1..Len(calc.buy_prices) :
            /\ calc.buy_prices[i] > 0
            /\ DecimalPositive(calc.buy_amounts[i])

====
